---- MODULE Spec2Model ----
(***************************************************************************)
(* Job lifecycle engine of the orchestrator: the Store (jobs table), the   *)
(* Job State Directory (job.json per job), the API of src/app/main.py      *)
(* (create_job and its policy, list_jobs and its cursor, get_job,          *)
(* get_job_logs, get_job_artifact, the rate limiter) and the Worker loop   *)
(* of src/app/runner.py.                                                   *)
(***************************************************************************)
EXTENDS Integers, Sequences, FiniteSets, TLC

\* ------------------------------------------------------------------ bounds
MaxJobs == 2
NumWorkers == 2
MaxTime == 1
\* how many times a step of a Worker's loop raises in one run (a raise inside
\* the except clause that handles such a raise is not counted again)
MaxFaults == 1
\* the listing client: job ids in the Store, page sizes it asks for
MaxListJobs == 3
MaxLimit == 2
\* the cursor codec: length of created_at and of job_id
MaxStrLen == 2
\* artifact download: path segments of the requested name
MaxSegs == 3
MaxPerMin == 2
Window == 2
MaxClock == 4
MaxAdmitted == 3
\* lines of an attempt log, and the largest tail a client asks for
MaxLogLines == 3
MaxTail == 3
\* the largest limit a client puts into policy.limits
MaxLimitValue == 1

JobIds == 1..MaxJobs
Workers == 1..NumWorkers
Times == 0..MaxTime
ListJobIds == 1..MaxListJobs
Limits == 1..MaxLimit

\* --------------------------------------------------------------- constants
\* None, for strings / job ids / timestamps / exit codes
NULL == "null"
NoJob == 0
NoTime == 0 - 1
\* _now_utc() in the Job Document: some instant (only its presence is used)
SomeTime == 0
NoExit == 0 - 1
TimeoutExitCode == 124
Engines == {"sqlite", "postgres"}
Terminal == {"succeeded", "failed"}
Statuses == {"queued", "running", "succeeded", "failed"}
\* runner.requested values a client may send (RunnerRequested), or none
RunnerRequested == {NULL, "docker"}
\* the command of a job whose text plays no part (the Worker passes it to the
\* shell; what the shell does with it is RunResults)
DefaultCommand == <<"l", "s">>
\* commands submitted to a Store that is listed with a q filter
Commands == {<<"l", "s">>, <<"i", "d">>}
\* ?status= and ?q= of GET /api/jobs (NULL / the empty text: no filter)
StatusFilters == {NULL, "queued"}
QFilters == {<<>>, <<"s">>}
\* "=" and "|" (as base64 digit / as byte), "0" and "Z"
Pad == 64
Bar == 124
Zero == 48
Zed == 90
Jay == 106
\* bytes of the texts given to the cursor codec: "0", "Z", "|"
Alphabet == {Zero, Zed, Bar}
\* no cursor (the empty text: `if cursor:` is false)
NoCursor == <<>>
\* what _decode_cursor returns: (created_at, job_id), or None
NoPair == [ok |-> FALSE, created_at |-> <<>>, job_id |-> <<>>]
\* a request body without policy.allowlist_domains; no request; no response
NoAllowlist == [given |-> FALSE, domains |-> {}]
\* None where an integer is expected
NoInt == 0 - 1
\* policy.limits of a request body (PolicyLimits), and a body without limits
PolicyLimits(r, m) ==
    [given |-> TRUE, max_runtime_seconds |-> r, max_output_mb |-> m]
NoPolicyLimits == [PolicyLimits(NoInt, NoInt) EXCEPT !.given = FALSE]
\* the limits dict of a stored policy: the dump of JobPolicyLimitsInternal
\* (cpu_limit, ram_limit_mb and pid_limit, always None, are left out); a
\* document of another writer may also hold max_runtime_seconds (NoInt: the
\* key is missing or None)
StoredLimits(max_runtime, time_limit, m) ==
    [given |-> TRUE, max_runtime_seconds |-> max_runtime,
     time_limit_seconds |-> time_limit, max_output_mb |-> m]
NoStoredLimits == [StoredLimits(NoInt, NoInt, NoInt) EXCEPT !.given = FALSE]
\* the policy of a Job Document, and "policy": None
StoredPolicy(allowlist, limits) ==
    [given |-> TRUE, allowlist_domains |-> allowlist, limits |-> limits]
NoPolicy == [StoredPolicy(NoAllowlist, NoStoredLimits) EXCEPT !.given = FALSE]
NoRequest == [allowlist |-> NoAllowlist, limits |-> NoPolicyLimits,
              command |-> <<>>, extra |-> FALSE]
NoResp == [op |-> "none", job |-> NoJob, req |-> NoRequest, arg |-> <<>>,
           code |-> 0, body |-> <<>>]
\* a response: the handler, the job and the request or argument it was
\* called with, the HTTP status code, the body
Response(op, j, r, arg, code, body) ==
    [op |-> op, job |-> j, req |-> r, arg |-> arg, code |-> code,
     body |-> body]
\* no path tree
NoTree == [f |-> FALSE, d |-> FALSE, l |-> <<"none">>]
\* _decode_cursor not called yet
NotDecoded == [ok |-> FALSE, created_at |-> <<Bar>>, job_id |-> <<>>]

VARIABLES
    engine,      \* _db_engine(DATABASE_URL): "sqlite" | "postgres"
    jobs,        \* the jobs table: job_id -> row
    dbLock,      \* sqlite: holder of the BEGIN IMMEDIATE write lock, 0 = free
    rowLock,     \* postgres: job_id -> holder of the FOR UPDATE row lock, 0 = free
    docs,        \* Job State Directory: job_id -> contents of job.json
    artifacts,   \* Job State Directory: job_id -> files under artifacts/,
                 \* each file named by the job whose command wrote it
    cwdArt,      \* files under <cwd>/artifacts of the Workers
    logs,        \* Job State Directory: attempt ids with a logs/attempt_<id>.ndjson
    apiPending,  \* create_job calls between the INSERT and _write_job_file
    pc,          \* Worker -> position in main()
    wjob,        \* Worker -> job_id of the claimed job
    wstate,      \* Worker -> job_state (the in-memory Job Document)
    wres,        \* Worker -> (exit_code, timed_out) of _run_command
    wexc,        \* Worker -> exception caught by the except clause
    faults,      \* exceptions raised so far
    hist,        \* per job: what has happened to it (history, not program state)
    cpair,       \* cursor codec: the (created_at, job_id) given to _encode_cursor
    ctext,       \* cursor codec: the text _encode_cursor returned
    cback,       \* cursor codec: _decode_cursor(ctext)
    cbackPadded, \* cursor codec: _decode_cursor(ctext with "=" padding)
    lreq,        \* listing client: its filters (status, q)
    llimit,      \* listing client: limit of its last call
    lcursor,     \* listing client: next_cursor of the last response
    litems,      \* listing client: items of the last response (job ids)
    lseen,       \* listing client: items of all responses so far
    lfirst,      \* the matching jobs in the Store at the client's first call
    lcalls,      \* listing client: calls made
    lpc,         \* listing client: "idle" | "start" | "paging" | "end" | "error"
    resp,        \* the last response of the API to a request other than a list
    tree,        \* the files under the Job State Directory, as paths
    max_per_min, \* _RateLimiter.max_per_min (RATE_LIMIT_PER_MIN)
    requests,    \* _RateLimiter.requests: client host -> admitted times
    rlclock,     \* time.time()
    admitted     \* per client host: the times of the requests call_next ran for

storeVars == <<engine, jobs, dbLock, rowLock, docs, artifacts, cwdArt, logs,
               apiPending, pc, wjob, wstate, wres, wexc, faults, hist>>
cursorVars == <<cpair, ctext, cback, cbackPadded>>
listVars == <<lreq, llimit, lcursor, litems, lseen, lfirst, lcalls, lpc>>
apiVars == <<resp, tree, max_per_min, requests, rlclock, admitted>>
vars == <<storeVars, cursorVars, listVars, apiVars>>

\* ------------------------------------------------------------ row ordering
\* ORDER BY created_at ASC, job_id ASC
KeyLess(rows, a, b) ==
    \/ rows[a].created_at < rows[b].created_at
    \/ rows[a].created_at = rows[b].created_at /\ a < b

\* (rows WHERE status IN ('queued', 'running'))
QueuedOrRunning(rows) ==
    {j \in DOMAIN rows : rows[j].status \in {"queued", "running"}}

\* rows WHERE status = 'queued'
Queued(rows) == {j \in DOMAIN rows : rows[j].status = "queued"}

\* (ORDER BY job_id ASC alone)
OldestById(rows, S) == CHOOSE j \in S : \A k \in S : j <= k

\* the first row of a set in ORDER BY created_at ASC, job_id ASC (LIMIT 1)
Oldest(rows, S) == CHOOSE j \in S : \A k \in S \ {j} : KeyLess(rows, j, k)

\* (the claim without FOR UPDATE SKIP LOCKED: every queued row)
ClaimCandidatesNoSkip(w) == Queued(jobs)

\* The rows the claim's SELECT can return.  sqlite: every queued row (the
\* BEGIN IMMEDIATE lock is database-wide).  postgres: FOR UPDATE SKIP LOCKED
\* leaves out the rows locked by another transaction.
ClaimCandidates(w) ==
    IF engine = "sqlite"
    THEN Queued(jobs)
    ELSE {j \in Queued(jobs) : rowLock[j] \in {0, w}}

Last(s) == s[Len(s)]

\* (overwrites a value that is there)
CoalesceOverwrite(v, d) == d

\* COALESCE(runner_selected, 'shell')
Coalesce(v, d) == IF v = NULL THEN d ELSE v

\* ------------------------------------------------------------ Job Document
\* (exit_code, timed_out) of _run_command, whether the captured output has
\* lines, and where the command left a file: nowhere, under
\* $JOB_ARTIFACTS_DIR ("own") or under ./artifacts of the Worker ("cwd")
NoRes == [exit_code |-> NoExit, timed_out |-> FALSE, out |-> FALSE,
          file |-> "none"]

\* history of a job: limits = the policy.limits it was created with,
\* claims = number of claim calls that returned it, ran /
\* result = what _run_command returned, exc = the exception the except clause
\* caught, done = the claiming Worker is through with it and polls again
EmptyHist == [claims |-> 0, minted |-> 0, ran |-> FALSE, result |-> NoRes, exc |-> NULL,
              done |-> FALSE, limits |-> NoPolicyLimits]

\* job_payload of create_job
InitialDocRunning(j, created, requested) ==
    [job_id |-> j, status |-> "running", created_at |-> created,
     completed_at |-> NoTime,
     runner |-> [requested |-> requested, selected |-> requested,
                 selection_reason |->
                     IF requested # NULL THEN "requested by user" ELSE NULL],
     policy |-> NoPolicy,
     attempts |-> <<>>, artifacts_manifest |-> {}]
InitialDoc(j, created, requested) ==
    [job_id |-> j, status |-> "queued", created_at |-> created,
     completed_at |-> NoTime,
     runner |-> [requested |-> requested, selected |-> requested,
                 selection_reason |->
                     IF requested # NULL THEN "requested by user" ELSE NULL],
     policy |-> NoPolicy,
     attempts |-> <<>>, artifacts_manifest |-> {}]

\* the skeleton the Worker synthesizes when _load_job returns {}
SkeletonDoc(j, now) ==
    [job_id |-> j, status |-> "queued", created_at |-> now,
     completed_at |-> NoTime,
     runner |-> [requested |-> NULL, selected |-> NULL,
                 selection_reason |-> NULL],
     policy |-> NoPolicy,
     attempts |-> <<>>, artifacts_manifest |-> {}]

\* no Job Document in memory
NoDoc == SkeletonDoc(NoJob, NoTime)

\* runner_state defaults (selected, selection_reason)
RunnerDefaultsByUser(r) ==
    LET sel == IF r.selected = NULL THEN "shell" ELSE r.selected
        why == IF r.selection_reason = NULL THEN "requested by user"
               ELSE r.selection_reason
    IN [requested |-> r.requested, selected |-> sel, selection_reason |-> why]
RunnerDefaults(r) ==
    LET sel == IF r.selected = NULL THEN "shell" ELSE r.selected
        why == IF r.selection_reason = NULL
               THEN (IF r.requested # NULL THEN "requested by user"
                     ELSE "default shell runner")
               ELSE r.selection_reason
    IN [requested |-> r.requested, selected |-> sel, selection_reason |-> why]

\* (the new attempt with finished_at = started_at)
NewAttemptFinished(aid, now) ==
    [attempt_id |-> aid, status |-> "running", started_at |-> now,
     finished_at |-> now, exit_code |-> NoExit, error_summary |-> NULL]

\* the attempt main() appends: running, finished_at, exit_code and
\* error_summary None
NewAttempt(aid, now) ==
    [attempt_id |-> aid, status |-> "running", started_at |-> now,
     finished_at |-> NoTime, exit_code |-> NoExit, error_summary |-> NULL]

\* the loop over job_state["attempts"] that updates the attempt attempt_id
SetAttemptKeepStatus(atts, aid, st, now, code, err) ==
    LET hits == {i \in 1..Len(atts) : atts[i].attempt_id = aid}
    IN IF hits = {} THEN atts
       ELSE LET i == CHOOSE x \in hits : \A y \in hits : x <= y
            IN [atts EXCEPT ![i] = [attempt_id |-> aid,
                                    status |-> atts[i].status,
                                    started_at |-> atts[i].started_at,
                                    finished_at |-> now, exit_code |-> code,
                                    error_summary |-> err]]
SetAttempt(atts, aid, st, now, code, err) ==
    LET hits == {i \in 1..Len(atts) : atts[i].attempt_id = aid}
    IN IF hits = {} THEN atts
       ELSE LET i == CHOOSE x \in hits : \A y \in hits : x <= y
            IN [atts EXCEPT ![i] = [attempt_id |-> aid, status |-> st,
                                    started_at |-> atts[i].started_at,
                                    finished_at |-> now, exit_code |-> code,
                                    error_summary |-> err]]

\* _build_artifacts_manifest: one entry per regular file under artifacts/
BuildManifest(j) == artifacts[j]

\* (status from the timeout flag alone)
TerminalStatusNoExit(res) == IF ~res.timed_out THEN "succeeded" ELSE "failed"

\* status = "succeeded" if exit_code == 0 and not timed_out else "failed"
TerminalStatus(res) ==
    IF res.exit_code = 0 /\ ~res.timed_out THEN "succeeded" ELSE "failed"

\* what _run_command can return: (returncode, False) or (124, True), for
\* the commands "true", "echo hi > $JOB_ARTIFACTS_DIR/f; echo hi",
\* "echo hi > artifacts/f; echo no >&2; exit 1" and "sleep 99"
\* (on a timeout stderr always holds the "[timeout after ..]" line)
RunResults ==
    {[exit_code |-> 0, timed_out |-> FALSE, out |-> FALSE, file |-> "none"],
     [exit_code |-> 0, timed_out |-> FALSE, out |-> TRUE, file |-> "own"],
     [exit_code |-> 1, timed_out |-> FALSE, out |-> TRUE, file |-> "cwd"],
     [exit_code |-> TimeoutExitCode, timed_out |-> TRUE, out |-> TRUE,
      file |-> "none"]}

\* a writer of the jobs table has to wait while another connection holds the
\* sqlite write lock
CanWrite(w) == engine = "sqlite" => dbLock \in {0, w}

\* UPDATE jobs SET status = %s WHERE job_id = %s
UpdateStatusSkipped(rows, j, st) == rows
UpdateStatus(rows, j, st) ==
    IF j \in DOMAIN rows THEN [rows EXCEPT ![j].status = st] ELSE rows

\* ------------------------------------------------------------------- Init
\* Workers at the top of their loop, no create_job call in flight
WorkersIdle ==
    /\ dbLock = 0
    /\ cwdArt = {}
    /\ apiPending = <<>>
    /\ pc = [w \in Workers |-> "poll"]
    /\ wjob = [w \in Workers |-> NoJob]
    /\ wstate = [w \in Workers |-> NoDoc]
    /\ wres = [w \in Workers |-> NoRes]
    /\ wexc = [w \in Workers |-> NULL]
    /\ faults = 0

\* an empty Store and an empty Job State Directory
StoreEmpty ==
    /\ jobs = <<>>
    /\ rowLock = [j \in JobIds |-> 0]
    /\ docs = <<>>
    /\ artifacts = [j \in JobIds |-> {}]
    /\ logs = {}
    /\ hist = [j \in JobIds |-> EmptyHist]

\* nobody uses the cursor codec on its own
CursorIdle ==
    /\ cpair = [created_at |-> <<>>, job_id |-> <<>>]
    /\ ctext = NoCursor
    /\ cback = NotDecoded
    /\ cbackPadded = NotDecoded

\* no response yet, no path tree, no rate limit, no request counted
ApiIdle ==
    /\ resp = NoResp
    /\ tree = NoTree
    /\ max_per_min = 0
    /\ requests = <<>>
    /\ rlclock = 0
    /\ admitted = <<>>

\* no client is paging through GET /api/jobs
ListIdle ==
    /\ lreq = [status |-> NULL, q |-> <<>>]
    /\ llimit = 0
    /\ lcursor = NoCursor
    /\ litems = <<>>
    /\ lseen = <<>>
    /\ lfirst = {}
    /\ lcalls = 0
    /\ lpc = "idle"

Init ==
    /\ engine \in Engines
    /\ StoreEmpty
    /\ WorkersIdle
    /\ CursorIdle
    /\ ListIdle
    /\ ApiIdle

\* ---------------------------------------------------------------- the API
\* INSERT INTO jobs (job_id, status, command, created_at, runner_requested,
\* runner_selected) VALUES (job_id, 'queued', ...)
InsertJob(rows, j, command, now, requested) ==
    [k \in DOMAIN rows \cup {j} |->
        IF k = j
        THEN [status |-> "queued", command |-> command, created_at |-> now,
              runner_requested |-> requested, runner_selected |-> requested]
        ELSE rows[k]]

\* the texts the requests are made of
Curl == <<"c", "u", "r", "l", " ">>
Http == <<"h", "t", "t", "p", ":", "/", "/">>
Https == <<"h", "t", "t", "p", "s", ":", "/", "/">>
EvilTest == <<"e", "v", "i", "l", ".", "t", "e", "s", "t">>
GoodTest == <<"g", "o", "o", "d", ".", "t", "e", "s", "t">>
AbIo == <<"a", "b", ".", "i", "o">>
AbIoUpper == <<"A", "B", ".", "i", "o">>
CdIo == <<"c", "d", ".", "i", "o">>

\* str.lower on the letters of the texts above
LowerChar(c) == IF c = "A" THEN "a" ELSE IF c = "B" THEN "b" ELSE c
Lower(text) == [i \in 1..Len(text) |-> LowerChar(text[i])]

\* the characters the class [^/\\s] of the raw-string pattern leaves out:
\* the slash, the backslash and the letter s
HostStops == {"/", "\\", "s"}

\* text has the characters of piece at position i
HasAt(text, i, piece) ==
    /\ i + Len(piece) - 1 <= Len(text)
    /\ \A k \in 1..Len(piece) : text[i + k - 1] = piece[k]

\* the end of the longest run of characters outside stops that starts at g
RECURSIVE RunEnd(_, _, _)
RunEnd(text, g, stops) ==
    IF g < Len(text) /\ text[g + 1] \notin stops
    THEN RunEnd(text, g + 1, stops)
    ELSE g

\* re.findall(r"https?://([^...]+)", text) from position i on, every match
\* lowercased: the scan resumes after the end of each match
RECURSIVE FindHosts(_, _, _)
FindHosts(text, i, stops) ==
    IF i > Len(text) THEN {}
    ELSE LET g == IF HasAt(text, i, Https) THEN i + Len(Https)
                   ELSE IF HasAt(text, i, Http) THEN i + Len(Http)
                   ELSE 0
         IN IF g = 0 \/ g > Len(text) THEN FindHosts(text, i + 1, stops)
            ELSE IF text[g] \in stops THEN FindHosts(text, i + 1, stops)
            ELSE LET e == RunEnd(text, g, stops)
                 IN {Lower(SubSeq(text, g, e))}
                        \cup FindHosts(text, e + 1, stops)

\* _extract_domains
ExtractDomains(command) == FindHosts(command, 1, HostStops)

\* _check_policy_allowlist: TRUE when it returns the policy_denied response
PolicyDenied(command, allowlist) ==
    IF ~allowlist.given \/ allowlist.domains = {} THEN FALSE
    ELSE LET allowset == {Lower(d) : d \in allowlist.domains}
         IN \E domain \in ExtractDomains(command) : domain \notin allowset

\* JobCreateRequest: command has min_length 1, unknown fields are forbidden
ValidRequest(r) == Len(r.command) >= 1 /\ ~r.extra

\* request bodies: a command, policy.allowlist_domains, an unknown field
Request(command, allowlist, extra) ==
    [allowlist |-> allowlist, limits |-> NoPolicyLimits,
     command |-> command, extra |-> extra]
\* a body with policy.limits and no allowlist
LimitsRequest(command, limits) ==
    [Request(command, NoAllowlist, FALSE) EXCEPT !.limits = limits]

\* policy_limits and policy_state of create_job: the limits are stored with
\* max_runtime_seconds under time_limit_seconds; no policy in the body, no
\* policy in the document
PolicyState(r) ==
    IF ~r.allowlist.given /\ ~r.limits.given
    THEN NoPolicy
    ELSE StoredPolicy(r.allowlist,
                      IF r.limits.given
                      THEN StoredLimits(NoInt, r.limits.max_runtime_seconds,
                                        r.limits.max_output_mb)
                      ELSE NoStoredLimits)
Allowlist(domains) == [given |-> TRUE, domains |-> domains]
PlainRequests(commands) ==
    {Request(c, NoAllowlist, FALSE) : c \in commands}

\* create_job, first half: the body is validated (400), the policy checked
\* (403); then mint job_id, created_at = now, INSERT the queued row and
\* commit (the connection's context manager exits).  ids: the ids _new_id
\* can mint; bodies: the bodies clients submit (runner.requested is drawn
\* apart).
CreateJobCall(ids, bodies) ==
    \E r \in bodies :
       IF ~ValidRequest(r)
       THEN /\ resp' = Response("create", NoJob, r, <<>>, 400, <<>>)
            /\ UNCHANGED <<storeVars, cursorVars, listVars, tree>>
       ELSE IF PolicyDenied(r.command, r.allowlist)
       THEN /\ resp' = Response("create", NoJob, r, <<>>, 403, <<>>)
            /\ UNCHANGED <<storeVars, cursorVars, listVars, tree>>
       ELSE /\ CanWrite(0)
            /\ \E j \in ids \ DOMAIN jobs, requested \in RunnerRequested,
                  now \in Times :
                  /\ \A k \in DOMAIN jobs : jobs[k].created_at <= now
                  /\ DOMAIN jobs = {} => now = 0
                  /\ jobs' = InsertJob(jobs, j, r.command, now, requested)
                  /\ apiPending' = [k \in DOMAIN apiPending \cup {j} |->
                        IF k = j
                        THEN [doc |-> [InitialDoc(j, now, requested) EXCEPT
                                          !.policy = PolicyState(r)],
                              request |-> r]
                        ELSE apiPending[k]]
                  /\ hist' = [hist EXCEPT ![j].limits = r.limits]
            /\ UNCHANGED <<cursorVars, listVars, resp, tree, engine, dbLock,
                           rowLock, docs, artifacts, cwdArt, logs, pc, wjob,
                           wstate, wres, wexc, faults>>

\* create_job with the rate limiter disabled (max_per_min = 0)
CreateJob(ids, bodies) ==
    /\ CreateJobCall(ids, bodies)
    /\ UNCHANGED <<max_per_min, requests, rlclock, admitted>>

\* create_job called while the Workers run
ApiInsert == CreateJob(JobIds, PlainRequests({DefaultCommand}))

\* create_job, second half: _write_job_file(job_id, job_payload)
ApiWriteDoc ==
    /\ \E j \in DOMAIN apiPending :
          /\ docs' = [k \in DOMAIN docs \cup {j} |->
                        IF k = j THEN apiPending[j].doc ELSE docs[k]]
          /\ apiPending' = [k \in DOMAIN apiPending \ {j} |-> apiPending[k]]
          /\ resp' = Response("create", NoJob, apiPending[j].request, <<>>,
                              201, <<>>)
    /\ UNCHANGED <<cursorVars, listVars, tree, max_per_min, requests,
                   rlclock, admitted, engine, jobs, dbLock, rowLock,
                   artifacts, cwdArt, logs, pc, wjob, wstate, wres, wexc,
                   faults, hist>>

\* the bodies sent to POST /api/jobs: commands with no, one or two URLs,
\* with and without an allowlist; one body with an unknown field
PolicyCommands ==
    {<<>>, DefaultCommand,
     Curl \o Http \o EvilTest \o <<"/", "x">>,
     Curl \o Http \o AbIo \o <<"/", "x">>,
     Curl \o Https \o AbIoUpper,
     Curl \o Http \o AbIo \o <<" ", "-", "v">>,
     Curl \o Http \o AbIo \o <<"/", " ">> \o Https \o CdIo \o <<"/">>}
Allowlists ==
    {NoAllowlist, Allowlist({}), Allowlist({EvilTest}), Allowlist({GoodTest}),
     Allowlist({AbIo}), Allowlist({AbIoUpper}), Allowlist({AbIo, CdIo})}
PolicyRequests ==
    {Request(c, a, FALSE) : c \in PolicyCommands, a \in Allowlists}
        \cup {Request(DefaultCommand, NoAllowlist, TRUE)}

\* POST /api/jobs with any of these bodies, no Worker running; _new_id
\* mints one id
PolicyJobIds == {1}
PostJob == CreateJob(PolicyJobIds, PolicyRequests)
NextCreate == PostJob \/ ApiWriteDoc
SpecCreate == Init /\ [][NextCreate]_vars

\* ------------------------------------------------------- the rate limiter
\* the client hosts; the times time.time() returns, in ticks (self.window
\* is Window ticks)
Hosts == {"a", "b"}
Clock == 0..MaxClock

\* self.requests.setdefault(key, []) and the history of a host
Bucket(key) == IF key \in DOMAIN requests THEN requests[key] ELSE <<>>
Admitted(key) == IF key \in DOMAIN admitted THEN admitted[key] ELSE <<>>

\* [t for t in bucket if now - t < self.window]
RECURSIVE Fresh(_, _)
Fresh(bucket, now) ==
    IF bucket = <<>> THEN <<>>
    ELSE IF now - Head(bucket) < Window
         THEN <<Head(bucket)>> \o Fresh(Tail(bucket), now)
         ELSE Fresh(Tail(bucket), now)

\* _RateLimiter.allow(key) at time now: what it returns and the bucket it
\* leaves
AllowAlways(key, now) ==
    [ok |-> TRUE, bucket |-> Append(Bucket(key), now), set |-> TRUE]
Allow(key, now) ==
    IF max_per_min <= 0
    THEN [ok |-> TRUE, bucket |-> Bucket(key), set |-> FALSE]
    ELSE LET bucket == Fresh(Bucket(key), now)
         IN IF Len(bucket) >= max_per_min
            THEN [ok |-> FALSE, bucket |-> bucket, set |-> TRUE]
            ELSE [ok |-> TRUE, bucket |-> Append(bucket, now), set |-> TRUE]

\* the bucket of key replaced (max_per_min <= 0 returns before setdefault)
SetBucket(key, a) ==
    IF a.set
    THEN [k \in DOMAIN requests \cup {key} |->
             IF k = key THEN a.bucket ELSE requests[k]]
    ELSE requests

\* the wall clock advances
Tick ==
    /\ rlclock < MaxClock
    /\ rlclock' = rlclock + 1
    /\ UNCHANGED <<storeVars, cursorVars, listVars, resp, tree, max_per_min,
                   requests, admitted>>

\* rate_limit_middleware for a request of client_host: 429 without
\* call_next, or call_next(request); handler is what call_next runs
Middleware(client_host, handler) ==
    LET a == Allow(client_host, rlclock) IN
    /\ requests' = SetBucket(client_host, a)
    /\ UNCHANGED <<max_per_min, rlclock>>
    /\ IF ~a.ok
       THEN /\ resp' = Response("limit", NoJob, NoRequest, <<client_host>>,
                                429, <<rlclock>>)
            /\ UNCHANGED <<storeVars, cursorVars, listVars, tree, admitted>>
       ELSE /\ Len(Admitted(client_host)) < MaxAdmitted
            /\ admitted' = [k \in DOMAIN admitted \cup {client_host} |->
                  IF k = client_host
                  THEN Append(Admitted(client_host), rlclock)
                  ELSE admitted[k]]
            /\ handler

\* GET /health: nothing changes
Health == UNCHANGED <<storeVars, cursorVars, listVars, resp, tree>>

\* the requests of the hosts: POST /api/jobs and GET /health
LimitedPost ==
    \E h \in Hosts :
       Middleware(h, CreateJobCall(PolicyJobIds,
                                   PlainRequests({DefaultCommand})))
LimitedHealth == \E h \in Hosts : Middleware(h, Health)

\* RATE_LIMIT_PER_MIN is read once, when the module is loaded
InitRate ==
    /\ engine \in Engines
    /\ StoreEmpty
    /\ WorkersIdle
    /\ CursorIdle
    /\ ListIdle
    /\ resp = NoResp
    /\ tree = NoTree
    /\ max_per_min \in 0..MaxPerMin
    /\ requests = <<>>
    /\ rlclock = 0
    /\ admitted = <<>>

NextRate == Tick \/ LimitedPost \/ LimitedHealth \/ ApiWriteDoc
SpecRate == InitRate /\ [][NextRate]_vars

\* -------------------------------------------------------------- the Worker
\* _claim_job, up to the row it selects.  sqlite: BEGIN IMMEDIATE and the
\* SELECT .. LIMIT 1.  postgres: the sub-SELECT .. FOR UPDATE SKIP LOCKED
\* LIMIT 1, which locks the row.  With no row: commit, return None, and
\* main() sleeps poll_interval and polls again.
ClaimBegin(w) ==
    /\ pc[w] = "poll"
    /\ CanWrite(w)
    /\ LET C == ClaimCandidates(w) IN
       IF C = {}
       THEN UNCHANGED <<pc, dbLock, rowLock, wjob>>
       ELSE LET j == Oldest(jobs, C) IN
            /\ pc' = [pc EXCEPT ![w] = "claiming"]
            /\ wjob' = [wjob EXCEPT ![w] = j]
            /\ IF engine = "sqlite"
               THEN dbLock' = w /\ UNCHANGED rowLock
               ELSE rowLock' = [rowLock EXCEPT ![j] = w] /\ UNCHANGED dbLock
    /\ UNCHANGED <<cursorVars, listVars, apiVars, engine, jobs, docs, artifacts,
                   cwdArt, logs, apiPending, wstate, wres, wexc, faults,
                   hist>>

\* (the UPDATE without status = 'running')
ClaimedRowStillQueued(row) ==
    [row EXCEPT !.runner_selected = Coalesce(row.runner_selected, "shell")]

\* SET status = 'running', runner_selected = COALESCE(runner_selected, 'shell')
ClaimedRow(row) ==
    [row EXCEPT !.status = "running",
                !.runner_selected = Coalesce(row.runner_selected, "shell")]

\* _claim_job, the UPDATE and the commit.  sqlite: UPDATE .. WHERE job_id = ?
\* AND status = 'queued', None when rowcount is 0.  postgres: UPDATE .. WHERE
\* job_id = (the locked row) RETURNING job_id, command.
ClaimCommit(w) ==
    /\ pc[w] = "claiming"
    /\ LET j == wjob[w]
           hit == engine = "postgres" \/ jobs[j].status = "queued"
       IN
       /\ IF hit
          THEN /\ jobs' = [jobs EXCEPT ![j] = ClaimedRow(@)]
               /\ pc' = [pc EXCEPT ![w] = "load"]
               /\ hist' = [hist EXCEPT ![j].claims = @ + 1]
               /\ UNCHANGED wjob
          ELSE /\ pc' = [pc EXCEPT ![w] = "poll"]
               /\ wjob' = [wjob EXCEPT ![w] = NoJob]
               /\ UNCHANGED <<jobs, hist>>
       /\ IF engine = "sqlite"
          THEN dbLock' = 0 /\ UNCHANGED rowLock
          ELSE rowLock' = [rowLock EXCEPT ![j] = 0] /\ UNCHANGED dbLock
    /\ UNCHANGED <<cursorVars, listVars, apiVars, engine, docs, artifacts,
                   cwdArt, logs, apiPending, wstate, wres, wexc, faults>>

\* _claim_job raises after the row was selected: the transaction is rolled
\* back, main() logs claim_error, sleeps poll_interval and polls again
\* (a raise before the SELECT changes nothing at all).  The except clause
\* writes the claim_error record with _log_runner, unprotected: when that
\* write raises too, the exception leaves main() and the Worker process ends.
ClaimRaise(w) ==
    /\ faults < MaxFaults
    /\ faults' = faults + 1
    /\ pc[w] = "claiming"
    /\ \E after \in {"poll", "crashed"} : pc' = [pc EXCEPT ![w] = after]
    /\ wjob' = [wjob EXCEPT ![w] = NoJob]
    /\ dbLock' = IF dbLock = w THEN 0 ELSE dbLock
    /\ rowLock' = [j \in JobIds |-> IF rowLock[j] = w THEN 0 ELSE rowLock[j]]
    /\ UNCHANGED <<cursorVars, listVars, apiVars, engine, jobs, docs, artifacts,
                   cwdArt, logs, apiPending, wstate, wres, wexc, hist>>

\* attempt_id = "att_" + uuid4().hex: a fresh id, here the job and the
\* number of attempt ids minted for it
AttemptId(j) == <<j, hist[j].minted + 1>>

\* main(), from the claim to the in-memory job_state with the new attempt:
\* _load_job (or the skeleton), the runner defaults, status = running
LoadJob(w) ==
    /\ pc[w] = "load"
    /\ LET j == wjob[w]
           loaded == IF j \in DOMAIN docs THEN docs[j] ELSE SkeletonDoc(j, SomeTime)
       IN
       /\ wstate' = [wstate EXCEPT ![w] =
              [loaded EXCEPT !.runner = RunnerDefaults(loaded.runner),
                             !.status = "running",
                             !.attempts = Append(loaded.attempts,
                                 NewAttempt(AttemptId(j), SomeTime))]]
       /\ hist' = [hist EXCEPT ![j].minted = @ + 1]
    /\ pc' = [pc EXCEPT ![w] = "mark"]
    /\ UNCHANGED <<cursorVars, listVars, apiVars, engine, jobs, dbLock,
                   rowLock, docs, artifacts, cwdArt, logs, apiPending, wjob,
                   wres, wexc, faults>>

\* _write_job(job_id, job_state) before the try block
WriteRunning(w) ==
    /\ pc[w] = "mark"
    /\ LET j == wjob[w] IN
       docs' = [k \in DOMAIN docs \cup {j} |->
                   IF k = j THEN wstate[w] ELSE docs[k]]
    /\ pc' = [pc EXCEPT ![w] = "run"]
    /\ UNCHANGED <<cursorVars, listVars, apiVars, engine, jobs, dbLock, rowLock,
                   artifacts, cwdArt, logs, apiPending, wjob, wstate, wres,
                   wexc, faults, hist>>

\* an exception between the claim and the try block (os.makedirs,
\* _log_runner, _write_job) leaves main(): the Worker process ends, with
\* job.json as it was
PrepareRaise(w) ==
    /\ faults < MaxFaults
    /\ faults' = faults + 1
    /\ pc[w] = "mark"
    /\ pc' = [pc EXCEPT ![w] = "crashed"]
    /\ wjob' = [wjob EXCEPT ![w] = NoJob]
    /\ wstate' = [wstate EXCEPT ![w] = NoDoc]
    /\ wres' = [wres EXCEPT ![w] = NoRes]
    /\ wexc' = [wexc EXCEPT ![w] = NULL]
    /\ UNCHANGED <<cursorVars, listVars, apiVars, engine, jobs, dbLock,
                   rowLock, docs, artifacts, cwdArt, logs, apiPending, hist>>

\* _run_command returns; the command may have written a file
RunCommand(w) ==
    /\ pc[w] = "run"
    /\ LET j == wjob[w] IN
       \E res \in RunResults :
          /\ wres' = [wres EXCEPT ![w] = res]
          /\ hist' = [hist EXCEPT ![j].ran = TRUE, ![j].result = res]
          /\ artifacts' = IF res.file = "own"
                          THEN [artifacts EXCEPT ![j] = @ \cup {j}]
                          ELSE artifacts
          /\ cwdArt' = IF res.file = "cwd" THEN cwdArt \cup {j} ELSE cwdArt
    /\ pc' = [pc EXCEPT ![w] = "logs"]
    /\ UNCHANGED <<cursorVars, listVars, apiVars, engine, jobs, dbLock,
                   rowLock, docs, logs, apiPending, wjob, wstate, wexc,
                   faults>>

\* _log_worker_output (nothing is written for an empty capture) and
\* _copy_artifacts(<cwd>/artifacts, job_artifacts_dir)
WriteLogs(w) ==
    /\ pc[w] = "logs"
    /\ LET j == wjob[w] IN
       /\ logs' = IF wres[w].out
                  THEN logs \cup {Last(wstate[w].attempts).attempt_id}
                  ELSE logs
       /\ artifacts' = [artifacts EXCEPT ![j] = @ \cup cwdArt]
    /\ pc' = [pc EXCEPT ![w] = "update"]
    /\ UNCHANGED <<cursorVars, listVars, apiVars, engine, jobs, dbLock,
                   rowLock, docs, cwdArt, apiPending, wjob, wstate, wres,
                   wexc, faults, hist>>

\* status from the exit code, _update_status, and the terminal fields of
\* job_state
UpdateJob(w) ==
    /\ pc[w] = "update"
    /\ CanWrite(w)
    /\ LET j == wjob[w]
           st == TerminalStatus(wres[w])
           aid == Last(wstate[w].attempts).attempt_id
       IN
       /\ jobs' = UpdateStatus(jobs, j, st)
       /\ wstate' = [wstate EXCEPT ![w] =
              [@ EXCEPT !.attempts = SetAttempt(@, aid, st, SomeTime,
                            wres[w].exit_code,
                            IF st = "succeeded" THEN NULL ELSE "command failed"),
                        !.status = st,
                        !.completed_at = SomeTime]]
    /\ pc' = [pc EXCEPT ![w] = "finish"]
    /\ UNCHANGED <<cursorVars, listVars, apiVars, engine, dbLock, rowLock, docs,
                   artifacts, cwdArt, logs, apiPending, wjob, wres, wexc,
                   faults, hist>>

\* the Worker is through with its job: back to the top of the loop
Release(w, j) ==
    /\ pc' = [pc EXCEPT ![w] = "poll"]
    /\ wjob' = [wjob EXCEPT ![w] = NoJob]
    /\ wstate' = [wstate EXCEPT ![w] = NoDoc]
    /\ wres' = [wres EXCEPT ![w] = NoRes]
    /\ wexc' = [wexc EXCEPT ![w] = NULL]
    /\ hist' = [hist EXCEPT ![j].done = TRUE]

\* _build_artifacts_manifest and _write_job at the end of the try block
WriteTerminal(w) ==
    /\ pc[w] = "finish"
    /\ LET j == wjob[w] IN
       /\ docs' = [k \in DOMAIN docs \cup {j} |->
                     IF k = j
                     THEN [wstate[w] EXCEPT !.artifacts_manifest = BuildManifest(j)]
                     ELSE docs[k]]
       /\ Release(w, j)
    /\ UNCHANGED <<cursorVars, listVars, apiVars, engine, jobs, dbLock, rowLock,
                   artifacts, cwdArt, logs, apiPending, faults>>

\* str(exc) of the exception a step of the try block raises
ErrorOf(step) ==
    CASE step = "run" -> "run error"
      [] step = "logs" -> "log error"
      [] step = "update" -> "store error"
      [] step = "finish" -> "write error"

\* a step of the try block raises: control goes to the except clause
TryRaise(w) ==
    /\ faults < MaxFaults
    /\ faults' = faults + 1
    /\ pc[w] \in {"run", "logs", "update", "finish"}
    /\ wexc' = [wexc EXCEPT ![w] = ErrorOf(pc[w])]
    /\ hist' = [hist EXCEPT ![wjob[w]].exc = ErrorOf(pc[w])]
    /\ pc' = [pc EXCEPT ![w] = "h_update"]
    /\ UNCHANGED <<cursorVars, listVars, apiVars, engine, jobs, dbLock,
                   rowLock, docs, artifacts, cwdArt, logs, apiPending, wjob,
                   wstate, wres>>

\* except clause: _update_status(.., "failed") and the failed fields of
\* job_state
HandlerUpdate(w) ==
    /\ pc[w] = "h_update"
    /\ CanWrite(w)
    /\ LET j == wjob[w]
           aid == Last(wstate[w].attempts).attempt_id
       IN
       /\ jobs' = UpdateStatus(jobs, j, "failed")
       /\ wstate' = [wstate EXCEPT ![w] =
              [@ EXCEPT !.attempts = SetAttempt(@, aid, "failed", SomeTime,
                            NoExit, wexc[w]),
                        !.status = "failed",
                        !.completed_at = SomeTime]]
    /\ pc' = [pc EXCEPT ![w] = "h_write"]
    /\ UNCHANGED <<cursorVars, listVars, apiVars, engine, dbLock, rowLock, docs,
                   artifacts, cwdArt, logs, apiPending, wjob, wres, wexc,
                   faults, hist>>

\* except clause: _build_artifacts_manifest and _write_job
HandlerWrite(w) ==
    /\ pc[w] = "h_write"
    /\ LET j == wjob[w] IN
       /\ docs' = [k \in DOMAIN docs \cup {j} |->
                     IF k = j
                     THEN [wstate[w] EXCEPT !.artifacts_manifest = BuildManifest(j)]
                     ELSE docs[k]]
       /\ Release(w, j)
    /\ UNCHANGED <<cursorVars, listVars, apiVars, engine, jobs, dbLock, rowLock,
                   artifacts, cwdArt, logs, apiPending, faults>>

\* a call of the except clause raises: the exception leaves main() and the
\* Worker process ends
HandlerRaise(w) ==
    /\ pc[w] \in {"h_update", "h_write"}
    /\ pc' = [pc EXCEPT ![w] = "crashed"]
    /\ wjob' = [wjob EXCEPT ![w] = NoJob]
    /\ wstate' = [wstate EXCEPT ![w] = NoDoc]
    /\ wres' = [wres EXCEPT ![w] = NoRes]
    /\ wexc' = [wexc EXCEPT ![w] = NULL]
    /\ UNCHANGED <<cursorVars, listVars, apiVars, engine, jobs, dbLock,
                   rowLock, docs, artifacts, cwdArt, logs, apiPending, hist,
                   faults>>

Next ==
    \/ ApiInsert
    \/ ApiWriteDoc
    \/ \E w \in Workers : ClaimBegin(w)
    \/ \E w \in Workers : ClaimCommit(w)
    \/ \E w \in Workers : ClaimRaise(w)
    \/ \E w \in Workers : LoadJob(w)
    \/ \E w \in Workers : WriteRunning(w)
    \/ \E w \in Workers : PrepareRaise(w)
    \/ \E w \in Workers : RunCommand(w)
    \/ \E w \in Workers : WriteLogs(w)
    \/ \E w \in Workers : UpdateJob(w)
    \/ \E w \in Workers : WriteTerminal(w)
    \/ \E w \in Workers : TryRaise(w)
    \/ \E w \in Workers : HandlerUpdate(w)
    \/ \E w \in Workers : HandlerWrite(w)
    \/ \E w \in Workers : HandlerRaise(w)

Spec == Init /\ [][Next]_vars

\* the steps the loop of a running Worker takes when nothing raises
WorkerStep(w) ==
    \/ ClaimBegin(w) \/ ClaimCommit(w) \/ LoadJob(w) \/ WriteRunning(w)
    \/ RunCommand(w) \/ WriteLogs(w) \/ UpdateJob(w) \/ WriteTerminal(w)
    \/ HandlerUpdate(w) \/ HandlerWrite(w)

\* A Worker process that has not ended keeps taking the steps of its loop
\* (DB round trips return, the command is bounded by timeout_secs), and a
\* create_job call that has inserted its row goes on to write job.json.
FairSpec ==
    /\ Spec
    /\ \A w \in Workers : WF_vars(WorkerStep(w))
    /\ WF_vars(ApiWriteDoc)

\* ------------------------------------------------------- the list cursor
\* Strings are sequences of byte values; a base64 text is a sequence of
\* 6-bit digits (the position in the urlsafe alphabet), Pad standing for "=".
RECURSIVE B64Encode(_)
\* base64.urlsafe_b64encode
B64Encode(b) ==
    IF Len(b) = 0 THEN <<>>
    ELSE IF Len(b) = 1
    THEN <<b[1] \div 4, (b[1] % 4) * 16, Pad, Pad>>
    ELSE IF Len(b) = 2
    THEN <<b[1] \div 4, (b[1] % 4) * 16 + b[2] \div 16, (b[2] % 16) * 4, Pad>>
    ELSE <<b[1] \div 4, (b[1] % 4) * 16 + b[2] \div 16,
           (b[2] % 16) * 4 + b[3] \div 64, b[3] % 64>>
             \o B64Encode(SubSeq(b, 4, Len(b)))

RECURSIVE RStripPad(_)
\* .rstrip("=")
RStripPad(s) ==
    IF Len(s) > 0 /\ s[Len(s)] = Pad
    THEN RStripPad(SubSeq(s, 1, Len(s) - 1))
    ELSE s

\* _encode_cursor: base64url of "<created_at>|<job_id>", unpadded
EncodeCursor(created_at, job_id) ==
    RStripPad(B64Encode(created_at \o <<Bar>> \o job_id))

BadBytes == <<0 - 1>>

RECURSIVE B64Decode(_)
\* base64.urlsafe_b64decode of a text of whole quads, BadBytes when it raises
\* ("Incorrect padding")
B64Decode(s) ==
    IF Len(s) = 0 THEN <<>>
    ELSE IF Len(s) < 4 THEN BadBytes
    ELSE LET a == s[1]
             b == s[2]
             c == s[3]
             d == s[4]
             rest == SubSeq(s, 5, Len(s))
         IN IF a = Pad \/ b = Pad THEN BadBytes
            ELSE IF c = Pad
            THEN (IF d = Pad /\ rest = <<>>
                  THEN <<a * 4 + b \div 16>> ELSE BadBytes)
            ELSE IF d = Pad
            THEN (IF rest = <<>>
                  THEN <<a * 4 + b \div 16, (b % 16) * 16 + c \div 4>>
                  ELSE BadBytes)
            ELSE LET tail == B64Decode(rest) IN
                 IF tail = BadBytes THEN BadBytes
                 ELSE <<a * 4 + b \div 16, (b % 16) * 16 + c \div 4,
                        (c % 4) * 64 + d>> \o tail

\* "=" * n
Pads(n) == [i \in 1..n |-> Pad]

\* (the decoder without the padding it adds)
DecodeCursorNoPadding(cursor) ==
    LET decoded == B64Decode(cursor)
        bars == {i \in 1..Len(decoded) : decoded[i] = Bar}
    IN IF decoded = BadBytes \/ bars = {} THEN NoPair
       ELSE LET i == CHOOSE x \in bars : \A y \in bars : x <= y
            IN [ok |-> TRUE, created_at |-> SubSeq(decoded, 1, i - 1),
                job_id |-> SubSeq(decoded, i + 1, Len(decoded))]

\* _decode_cursor: pad to a multiple of 4, decode, split at the first "|";
\* None on any exception
DecodeCursor(cursor) ==
    LET padding == Pads((4 - (Len(cursor) % 4)) % 4)
        decoded == B64Decode(cursor \o padding)
        bars == {i \in 1..Len(decoded) : decoded[i] = Bar}
    IN IF decoded = BadBytes \/ bars = {} THEN NoPair
       ELSE LET i == CHOOSE x \in bars : \A y \in bars : x <= y
            IN [ok |-> TRUE, created_at |-> SubSeq(decoded, 1, i - 1),
                job_id |-> SubSeq(decoded, i + 1, Len(decoded))]

\* texts of at most n bytes
Texts(n) == UNION {[1..m -> Alphabet] : m \in 0..n}

\* _encode_cursor(created_at, job_id)
CursorEncode ==
    /\ ctext = NoCursor
    /\ lpc = "idle"
    /\ ctext' = EncodeCursor(cpair.created_at, cpair.job_id)
    /\ UNCHANGED <<storeVars, apiVars, listVars, cpair, cback, cbackPadded>>

\* _decode_cursor of the text as _encode_cursor returned it
CursorDecode ==
    /\ ctext # NoCursor
    /\ cback = NotDecoded
    /\ cback' = DecodeCursor(ctext)
    /\ UNCHANGED <<storeVars, apiVars, listVars, cpair, ctext, cbackPadded>>

\* _decode_cursor of the same text with its base64 padding put back
CursorDecodePadded ==
    /\ ctext # NoCursor
    /\ cbackPadded = NotDecoded
    /\ cbackPadded' =
          DecodeCursor(ctext \o Pads((4 - (Len(ctext) % 4)) % 4))
    /\ UNCHANGED <<storeVars, apiVars, listVars, cpair, ctext, cback>>

InitCursor ==
    /\ engine = "sqlite"
    /\ StoreEmpty
    /\ WorkersIdle
    /\ ListIdle
    /\ ApiIdle
    /\ cpair \in [created_at : Texts(MaxStrLen), job_id : Texts(MaxStrLen)]
    /\ ctext = NoCursor
    /\ cback = NotDecoded
    /\ cbackPadded = NotDecoded

NextCursor == CursorEncode \/ CursorDecode \/ CursorDecodePadded

SpecCursor == InitCursor /\ [][NextCursor]_vars

\* ------------------------------------------------------- GET /api/jobs
\* _format_timestamp of a created_at: an ISO text of fixed width ending in
\* "Z" (create_job stores whole seconds), here one digit and "Z"
FormatTimestamp(t) == <<Zero + t, Zed>>

\* _parse_cursor_ts: the instant an ISO text ending in "Z" stands for; a text
\* that datetime.fromisoformat rejects is NoTime here
ParseCursorTs(ts) ==
    IF Len(ts) = 2 /\ ts[2] = Zed /\ ts[1] - Zero \in 0..9
    THEN ts[1] - Zero
    ELSE NoTime

\* the job_id text of a job ("job_" and the digits _new_id draws)
JobIdText(j) == <<Jay, Zero + j>>

RECURSIVE TextLess(_, _)
\* a < b on TEXT values (bytewise)
TextLess(a, b) ==
    IF b = <<>> THEN FALSE
    ELSE IF a = <<>> THEN TRUE
    ELSE IF a[1] # b[1] THEN a[1] < b[1]
    ELSE TextLess(Tail(a), Tail(b))

\* command LIKE '%q%'
Contains(command, q) ==
    \E i \in 0..(Len(command) - Len(q)) : SubSeq(command, i + 1, i + Len(q)) = q

\* the status = ? and command LIKE ? clauses
Matches(rows, k, req) ==
    /\ req.status # NULL => rows[k].status = req.status
    /\ req.q # <<>> => Contains(rows[k].command, req.q)

\* (the cursor clause without its tie-break on job_id)
AfterCursorNoTie(rows, eng, k, cursor_ts, cursor_id) ==
    IF eng = "postgres"
    THEN rows[k].created_at < ParseCursorTs(cursor_ts)
    ELSE TextLess(FormatTimestamp(rows[k].created_at), cursor_ts)

\* (created_at < ? OR (created_at = ? AND job_id < ?)); the created_at column
\* is TEXT in sqlite and a TIMESTAMP in postgres, where list_jobs passes
\* _parse_cursor_ts(cursor_ts)
AfterCursor(rows, eng, k, cursor_ts, cursor_id) ==
    IF eng = "postgres"
    THEN \/ rows[k].created_at < ParseCursorTs(cursor_ts)
         \/ /\ rows[k].created_at = ParseCursorTs(cursor_ts)
            /\ TextLess(JobIdText(k), cursor_id)
    ELSE \/ TextLess(FormatTimestamp(rows[k].created_at), cursor_ts)
         \/ /\ FormatTimestamp(rows[k].created_at) = cursor_ts
            /\ TextLess(JobIdText(k), cursor_id)

RECURSIVE OrderDesc(_, _)
\* ORDER BY created_at DESC, job_id DESC
OrderDesc(rows, S) ==
    IF S = {} THEN <<>>
    ELSE LET m == CHOOSE j \in S : \A k \in S \ {j} : KeyLess(rows, k, j)
         IN <<m>> \o OrderDesc(rows, S \ {m})

\* (a cursor whenever the page is full)
HasMoreWhenFull(rows, limit) == Len(rows) >= limit

\* len(rows) > limit
HasMore(rows, limit) == Len(rows) > limit

\* (the row after the page)
LastRowExtra(rows, limit) == rows[limit + 1]

\* last_row = rows[limit - 1], counted from 0
LastRow(rows, limit) == rows[limit]

\* list_jobs: the response (items as job ids, next_cursor), error = the 400
\* "invalid cursor"
ListJobs(rows, eng, req, limit, cursor) ==
    LET decoded == DecodeCursor(cursor) IN
    IF cursor # NoCursor /\ ~decoded.ok
    THEN [error |-> TRUE, items |-> <<>>, next_cursor |-> NoCursor]
    ELSE LET S == {k \in DOMAIN rows :
                     /\ Matches(rows, k, req)
                     /\ cursor # NoCursor =>
                          AfterCursor(rows, eng, k, decoded.created_at,
                                      decoded.job_id)}
             ordered == OrderDesc(rows, S)
             fetched == SubSeq(ordered, 1,
                               IF Len(ordered) < limit + 1
                               THEN Len(ordered) ELSE limit + 1)
         IN IF HasMore(fetched, limit)
            THEN LET last_row == LastRow(fetched, limit) IN
                 [error |-> FALSE,
                  items |-> SubSeq(fetched, 1, limit),
                  next_cursor |->
                      EncodeCursor(FormatTimestamp(rows[last_row].created_at),
                                   JobIdText(last_row))]
            ELSE [error |-> FALSE, items |-> fetched,
                  next_cursor |-> NoCursor]

\* where the client stands after a response
AfterResponse(r) ==
    IF r.error THEN "error"
    ELSE IF r.next_cursor = NoCursor THEN "end" ELSE "paging"

\* the client's first GET /api/jobs?status=..&q=..&limit=..
ListFirst ==
    /\ lpc = "start"
    /\ \E limit \in Limits :
          LET r == ListJobs(jobs, engine, lreq, limit, NoCursor) IN
          /\ llimit' = limit
          /\ litems' = r.items
          /\ lcursor' = r.next_cursor
          /\ lseen' = r.items
          /\ lpc' = AfterResponse(r)
    /\ lfirst' = {k \in DOMAIN jobs : Matches(jobs, k, lreq)}
    /\ lcalls' = 1
    /\ UNCHANGED <<storeVars, apiVars, cursorVars, lreq>>

\* the client's next call, with the same filters and cursor = the
\* next_cursor of the last response
ListFollow ==
    /\ lpc = "paging"
    /\ \E limit \in Limits :
          LET r == ListJobs(jobs, engine, lreq, limit, lcursor) IN
          /\ llimit' = limit
          /\ litems' = r.items
          /\ lcursor' = r.next_cursor
          /\ lseen' = lseen \o r.items
          /\ lpc' = AfterResponse(r)
    /\ lcalls' = lcalls + 1
    /\ UNCHANGED <<storeVars, apiVars, cursorVars, lreq, lfirst>>

\* create_job called between two calls of the listing client
ListCreateJob == lpc # "idle" /\ CreateJob(ListJobIds, PlainRequests(Commands))

\* what a Worker leaves of a job whose command exited 0 with no output and
\* no file: the row, the Job Document
FinishedResult == [exit_code |-> 0, timed_out |-> FALSE, out |-> FALSE,
                   file |-> "none"]
FinishedDoc(j, created) ==
    [InitialDoc(j, created, NULL) EXCEPT
        !.status = "succeeded",
        !.completed_at = SomeTime,
        !.runner = RunnerDefaults(@),
        !.attempts = SetAttempt(<<NewAttempt(<<j, 1>>, SomeTime)>>, <<j, 1>>,
                                "succeeded", SomeTime, 0, NULL)]

\* the rows a Store can hold: submitted earlier, some of them processed
ListRows ==
    [status : {"queued", "succeeded"}, command : Commands,
     created_at : Times, runner_requested : {NULL},
     runner_selected : {NULL, "shell"}]

InitList ==
    /\ engine \in Engines
    /\ WorkersIdle
    /\ CursorIdle
    /\ ApiIdle
    /\ \E S \in SUBSET ListJobIds : jobs \in [S -> ListRows]
    /\ \A j \in DOMAIN jobs :
          jobs[j].runner_selected = "shell" <=> jobs[j].status = "succeeded"
    /\ rowLock = [j \in ListJobIds |-> 0]
    /\ docs = [j \in DOMAIN jobs |->
                 IF jobs[j].status = "queued"
                 THEN InitialDoc(j, jobs[j].created_at, NULL)
                 ELSE FinishedDoc(j, jobs[j].created_at)]
    /\ artifacts = [j \in ListJobIds |-> {}]
    /\ logs = {}
    /\ hist = [j \in ListJobIds |->
                 IF j \in DOMAIN jobs /\ jobs[j].status = "succeeded"
                 THEN [claims |-> 1, minted |-> 1, ran |-> TRUE,
                       result |-> FinishedResult, exc |-> NULL, done |-> TRUE,
                       limits |-> NoPolicyLimits]
                 ELSE EmptyHist]
    /\ lreq \in [status : StatusFilters, q : QFilters]
    /\ llimit = 0
    /\ lcursor = NoCursor
    /\ litems = <<>>
    /\ lseen = <<>>
    /\ lfirst = {}
    /\ lcalls = 0
    /\ lpc = "start"

NextList == ListFirst \/ ListFollow \/ ListCreateJob \/ ApiWriteDoc

SpecList == InitList /\ [][NextList]_vars

\* -------------------------------- GET /api/jobs/{job_id}/artifacts/{name}
\* Paths are sequences of segments from the jobs root (_jobs_root()).  The
\* tree holds two jobs: the requested one (job 1) and another one (job 2).
JobDirName(j) == IF j = 1 THEN "j1" ELSE "j2"
JobDir(j) == <<JobDirName(j)>>
JobJson(j) == <<JobDirName(j), "job.json">>
\* base_dir = _job_state_dir(job_id) / "artifacts"
ArtifactsDir(j) == <<JobDirName(j), "artifacts">>
\* no symlink
NoLink == <<>>

\* where the symlink artifacts/l of job 1 may point: at job.json, at the job
\* directory, at the artifacts root, at a file or a directory under it, at
\* another job's artifacts directory or file
LinkTargets ==
    {JobJson(1), JobDir(1), ArtifactsDir(1), ArtifactsDir(1) \o <<"f">>,
     ArtifactsDir(1) \o <<"d">>, ArtifactsDir(2), ArtifactsDir(2) \o <<"f">>}

\* the trees: under job 1's artifacts/ a file f, a directory d holding a file
\* g, a symlink l (each present or not); job 2's artifacts/ holds a file f
Trees == [f : BOOLEAN, d : BOOLEAN, l : LinkTargets \cup {NoLink}]

\* the regular files of a tree (a symlink is not one), and its symlink
Files(t) ==
    {JobJson(1), JobJson(2), ArtifactsDir(2) \o <<"f">>}
        \cup (IF t.f THEN {ArtifactsDir(1) \o <<"f">>} ELSE {})
        \cup (IF t.d THEN {ArtifactsDir(1) \o <<"d", "g">>} ELSE {})
IsLink(t, p) == t.l # NoLink /\ p = ArtifactsDir(1) \o <<"l">>

\* the segments a requested name is made of
Segments == {"..", ".", "f", "d", "g", "l", "artifacts", "job.json", "j2"}
Names == UNION {[1..m -> Segments] : m \in 1..MaxSegs}

\* Path.parent
Parent(p) == IF p = <<>> THEN <<>> ELSE SubSeq(p, 1, Len(p) - 1)

RECURSIVE Resolve(_, _, _)
\* Path.resolve() of cur / segs (cur already resolved): "." is dropped, ".."
\* goes to the parent of the resolved path, a symlink is replaced by its
\* target, a missing component is kept as written
Resolve(t, cur, segs) ==
    IF segs = <<>> THEN cur
    ELSE LET seg == Head(segs)
             rest == Tail(segs)
         IN IF seg = "." THEN Resolve(t, cur, rest)
            ELSE IF seg = ".." THEN Resolve(t, Parent(cur), rest)
            ELSE IF IsLink(t, cur \o <<seg>>) THEN Resolve(t, t.l, rest)
            ELSE Resolve(t, cur \o <<seg>>, rest)

\* base_resolved in target.parents
InParents(base, target) ==
    Len(target) > Len(base) /\ SubSeq(target, 1, Len(base)) = base

\* (the containment test left out)
ContainedAlways(base, target) == TRUE

\* not (base_resolved not in target.parents and target != base_resolved)
Contained(base, target) == InParents(base, target) \/ target = base

\* get_job_artifact: 404 without a Store row, 404 when the resolved target is
\* not contained in the resolved base or is no regular file, else the file
GetJobArtifactResponse(rows, t, j, name) ==
    LET base_dir == ArtifactsDir(j)
        target == Resolve(t, base_dir, name)
        base_resolved == Resolve(t, <<>>, base_dir)
    IN IF j \notin DOMAIN rows
       THEN Response("artifact", j, NoRequest, name, 404, <<>>)
       ELSE IF ~Contained(base_resolved, target)
       THEN Response("artifact", j, NoRequest, name, 404, <<>>)
       ELSE IF target \notin Files(t)
       THEN Response("artifact", j, NoRequest, name, 404, <<>>)
       ELSE Response("artifact", j, NoRequest, name, 200, target)

\* a client downloads an artifact of job 1, or of a job the Store lacks
GetJobArtifact ==
    /\ tree # NoTree
    /\ resp = NoResp
    /\ \E j \in {1, NoJob}, name \in Names :
          resp' = GetJobArtifactResponse(jobs, tree, j, name)
    /\ UNCHANGED <<storeVars, cursorVars, listVars, tree, max_per_min,
                   requests, rlclock, admitted>>

\* two jobs that Workers have finished, the files their commands left
InitArtifact ==
    /\ engine \in Engines
    /\ WorkersIdle
    /\ CursorIdle
    /\ ListIdle
    /\ jobs = [j \in JobIds |->
                 [status |-> "succeeded", command |-> DefaultCommand,
                  created_at |-> 0, runner_requested |-> NULL,
                  runner_selected |-> "shell"]]
    /\ rowLock = [j \in JobIds |-> 0]
    /\ docs = [j \in JobIds |-> FinishedDoc(j, 0)]
    /\ artifacts = [j \in JobIds |-> {}]
    /\ logs = {}
    /\ hist = [j \in JobIds |->
                 [claims |-> 1, minted |-> 1, ran |-> TRUE,
                  result |-> FinishedResult, exc |-> NULL, done |-> TRUE,
                  limits |-> NoPolicyLimits]]
    /\ resp = NoResp
    /\ tree \in Trees
    /\ max_per_min = 0
    /\ requests = <<>>
    /\ rlclock = 0
    /\ admitted = <<>>

NextArtifact == GetJobArtifact

SpecArtifact == InitArtifact /\ [][NextArtifact]_vars

\* --------------------------------------------- GET /api/jobs/{job_id}[/logs]
\* job.json of j is open for writing: _write_job_file and _write_job open
\* the file with mode "w", which truncates it, and then write the text
BeingWritten(j) ==
    \/ j \in DOMAIN apiPending
    \/ \E w \in Workers : wjob[w] = j /\ pc[w] \in {"mark", "finish", "h_write"}

\* _read_job_file: what it can return for j.  NoDoc stands for None: the
\* file is missing, or its text does not parse because a writer has
\* truncated it and not yet written it whole.
ReadJobFile(j) ==
    (IF j \in DOMAIN docs THEN {docs[j]} ELSE {NoDoc})
        \cup (IF BeingWritten(j) THEN {NoDoc} ELSE {})

\* get_job, given what _read_job_file returned
GetJobResponse(rows, doc, j) ==
    IF j \notin DOMAIN rows
    THEN Response("get", j, NoRequest, <<>>, 404, NoDoc)
    ELSE IF doc = NoDoc
    THEN Response("get", j, NoRequest, <<>>, 404, NoDoc)
    ELSE Response("get", j, NoRequest, <<>>, 200, doc)

\* the attempt get_job_logs reads: attempt_id, or the last attempt of the
\* document when attempt_id is omitted (the empty tuple)
Selected(attempts, attempt_id) ==
    IF attempt_id = <<>> THEN Last(attempts).attempt_id ELSE attempt_id

\* get_job_logs, given what _read_job_file returned; files: the attempts
\* that have an NDJSON file.  The body names the file whose lines are sent.
GetJobLogsResponse(rows, doc, files, j, attempt_id) ==
    IF j \notin DOMAIN rows
    THEN Response("logs", j, NoRequest, attempt_id, 404, <<>>)
    ELSE IF doc = NoDoc
    THEN Response("logs", j, NoRequest, attempt_id, 404, <<>>)
    ELSE IF doc.attempts = <<>>
    THEN Response("logs", j, NoRequest, attempt_id, 409, <<>>)
    ELSE IF Selected(doc.attempts, attempt_id) \notin files
    THEN Response("logs", j, NoRequest, attempt_id, 409, <<>>)
    ELSE Response("logs", j, NoRequest, attempt_id, 200,
                  Selected(doc.attempts, attempt_id))

\* the job ids and attempt ids clients ask for: the jobs and one unknown
\* id; attempt_id omitted, or the first or second id minted for the job
AskedJobs == JobIds \cup {NoJob}
AskedAttempts(j) == {<<>>, <<j, 1>>, <<j, 2>>}
NotAsked == resp.op \notin {"get", "logs"}

GetJob ==
    /\ NotAsked
    /\ \E j \in AskedJobs : \E doc \in ReadJobFile(j) :
          resp' = GetJobResponse(jobs, doc, j)
    /\ UNCHANGED <<storeVars, cursorVars, listVars, tree, max_per_min,
                   requests, rlclock, admitted>>

GetJobLogs ==
    /\ NotAsked
    /\ \E j \in AskedJobs : \E doc \in ReadJobFile(j) :
       \E attempt_id \in AskedAttempts(j) :
          resp' = GetJobLogsResponse(jobs, doc, logs, j, attempt_id)
    /\ UNCHANGED <<storeVars, cursorVars, listVars, tree, max_per_min,
                   requests, rlclock, admitted>>

\* one Worker process runs, the others were never started
InitRead ==
    /\ engine \in Engines
    /\ StoreEmpty
    /\ dbLock = 0
    /\ cwdArt = {}
    /\ apiPending = <<>>
    /\ pc = [w \in Workers |-> IF w = 1 THEN "poll" ELSE "crashed"]
    /\ wjob = [w \in Workers |-> NoJob]
    /\ wstate = [w \in Workers |-> NoDoc]
    /\ wres = [w \in Workers |-> NoRes]
    /\ wexc = [w \in Workers |-> NULL]
    /\ faults = 0
    /\ CursorIdle
    /\ ListIdle
    /\ ApiIdle

\* the API and the Worker run until a client reads a job or its logs
BeforeRead == NotAsked /\ Next
NextRead == BeforeRead \/ GetJob \/ GetJobLogs
SpecRead == InitRead /\ [][NextRead]_vars

\* the Workers that are between a claim and the end of the job's processing
Busy == {"load", "mark", "run", "logs", "update", "finish", "h_update", "h_write"}
InHandler == {"h_update", "h_write"}

\* ------------------------------------------------------------------ claims

\* C1: with several Workers claiming concurrently, on either engine, no job_id
\* is returned by two claim calls, and the claim calls that returned a job are
\* exactly one per row that has left queued (so M queued jobs make exactly M
\* claims succeed; every other call returns none).
C1_ClaimedExactlyOnce ==
    \A j \in JobIds :
        /\ hist[j].claims <= 1
        /\ hist[j].claims = 1 <=> (j \in DOMAIN jobs /\ jobs[j].status # "queued")

\* two Workers hold different jobs at the same time, each claimed once
C1_Witness ==
    \E w1, w2 \in Workers :
        /\ w1 # w2
        /\ pc[w1] \in Busy /\ pc[w2] \in Busy
        /\ wjob[w1] # wjob[w2]
        /\ hist[wjob[w1]].claims = 1 /\ hist[wjob[w2]].claims = 1

\* C2: the Store status of a job only moves along queued -> running ->
\* {succeeded, failed}; a terminal row never changes and no row returns to
\* queued.
C2_StatusMonotone ==
    [][\A j \in DOMAIN jobs :
          \/ jobs'[j].status = jobs[j].status
          \/ jobs[j].status = "queued" /\ jobs'[j].status = "running"
          \/ jobs[j].status = "running" /\ jobs'[j].status \in Terminal]_vars

\* C3: whenever the Worker that claimed a job is through with it and polls
\* again, the Store status is terminal and the Job Document's status and the
\* status of its last attempt equal it.
C3_ConsistentWhenDone ==
    \A j \in JobIds :
        hist[j].done =>
            /\ j \in DOMAIN jobs /\ jobs[j].status \in Terminal
            /\ j \in DOMAIN docs /\ docs[j].status = jobs[j].status
            /\ docs[j].attempts # <<>>
            /\ Last(docs[j].attempts).status = jobs[j].status

\* C4 as stated: the row a claim selects is the smallest in (created_at,
\* job_id) among all rows that are queued at that moment.
C4_ClaimsOldestQueued ==
    [][\A w \in Workers :
          (pc[w] = "poll" /\ pc'[w] = "claiming") =>
              \A k \in DOMAIN jobs :
                  jobs[k].status = "queued" /\ k # wjob'[w] =>
                      \/ jobs[wjob'[w]].created_at < jobs[k].created_at
                      \/ /\ jobs[wjob'[w]].created_at = jobs[k].created_at
                         /\ wjob'[w] < k]_vars

\* C4 amended: the row a claim selects is queued and is the smallest in
\* (created_at, job_id) among the queued rows that no other Worker's
\* uncommitted claim has locked (on sqlite: among all queued rows); when no
\* row is queued no claim selects a row; and a claim changes no row but the
\* one it returns.
C4_ClaimsOldestUnlocked ==
    [][\A w \in Workers :
          /\ (pc[w] = "poll" /\ pc'[w] = "claiming") =>
                /\ wjob'[w] \in DOMAIN jobs
                /\ jobs[wjob'[w]].status = "queued"
                /\ jobs' = jobs
                /\ \A k \in DOMAIN jobs :
                      /\ jobs[k].status = "queued"
                      /\ k # wjob'[w]
                      /\ engine = "postgres" => rowLock[k] = 0
                      => \/ jobs[wjob'[w]].created_at < jobs[k].created_at
                         \/ /\ jobs[wjob'[w]].created_at = jobs[k].created_at
                            /\ wjob'[w] < k
          /\ (pc[w] = "poll" /\ \A k \in DOMAIN jobs : jobs[k].status # "queued")
                => pc'[w] = "poll"
          /\ (pc[w] = "claiming" /\ pc'[w] # "claiming") =>
                \A k \in DOMAIN jobs : k # wjob[w] => jobs'[k] = jobs[k]]_vars

\* a claim has selected a row while another row is queued too
C4_Witness ==
    \E w \in Workers :
        /\ pc[w] = "claiming"
        /\ \E k \in DOMAIN jobs : k # wjob[w] /\ jobs[k].status = "queued"
        /\ jobs[wjob[w]].status = "queued"

\* C5: under fairness, with at least one Worker that keeps running, every job
\* inserted as queued eventually reaches succeeded or failed in the Store.
C5_EveryJobFinishes ==
    [](\E w \in Workers : pc[w] # "crashed") =>
        \A j \in JobIds :
            (j \in DOMAIN jobs /\ jobs[j].status = "queued")
                ~> (j \in DOMAIN jobs /\ jobs[j].status \in Terminal)

C7_FailureAbsorbed ==
    \A j \in JobIds :
        hist[j].exc # NULL =>
            \/ \E w \in Workers : wjob[w] = j /\ pc[w] \in InHandler
            \/ /\ hist[j].done
               /\ jobs[j].status = "failed"
               /\ j \in DOMAIN apiPending
                  \/ /\ docs[j].status = "failed"
                     /\ Last(docs[j].attempts).error_summary = hist[j].exc
                     /\ docs[j].artifacts_manifest = artifacts[j]

\* ------------------------------------------------------------- listing
\* the set of the items of a page
ItemSet(page) == {page[i] : i \in 1..Len(page)}

\* page holds the first rows of the set F in (created_at DESC, job_id DESC)
\* order, Len(page) of them: it is in that order without a repeat, and no row
\* of F outside it comes before its last item
IsHeadOf(rows, page, F) ==
    /\ ItemSet(page) \subseteq F
    /\ \A a, b \in 1..Len(page) : a < b => KeyLess(rows, page[b], page[a])
    /\ \A k \in F \ ItemSet(page) :
          Len(page) > 0 /\ KeyLess(rows, k, page[Len(page)])

\* the smaller of a page size and the number of rows there are
PageLen(limit, F) == IF Cardinality(F) < limit THEN Cardinality(F) ELSE limit

\* C8: a call with the next_cursor of the previous call and the same filters
\* returns exactly the rows that follow the previous page's last item in
\* (created_at DESC, job_id DESC) order: the matching rows after that item,
\* from the first on, none repeated and none skipped, as many as limit allows.
C8_NextPageFollows ==
    [][lpc = "paging" /\ lcalls' = lcalls + 1 =>
         LET F == {k \in DOMAIN jobs :
                     /\ Matches(jobs, k, lreq)
                     /\ KeyLess(jobs, k, litems[Len(litems)])}
         IN /\ lpc' # "error"
            /\ IsHeadOf(jobs, litems', F)
            /\ Len(litems') = PageLen(llimit', F)
            /\ ItemSet(litems') \cap ItemSet(litems) = {}]_vars

\* C8 witness: a second page has been returned whose first item has the
\* created_at of the last item of the page before it
C8_Witness ==
    /\ lcalls >= 2
    /\ Len(litems) >= 1
    /\ Len(lseen) > Len(litems)
    /\ jobs[lseen[Len(lseen) - Len(litems)]].created_at
          = jobs[litems[1]].created_at

\* C9: every call returns at most limit items, the newest first; next_cursor
\* is non-null exactly when a further matching row exists after the returned
\* page; and when next_cursor is null the pages together hold every job that
\* matched at the first call exactly once, whatever was inserted meanwhile.
C9_PagesCoverStore ==
    [][lcalls' = lcalls + 1 =>
         LET M == {k \in DOMAIN jobs : Matches(jobs, k, lreq)}
             further == {k \in M :
                           /\ Len(litems') > 0
                           /\ KeyLess(jobs, k, litems'[Len(litems')])}
         IN /\ Len(litems') <= llimit'
            /\ \A a, b \in 1..Len(litems') :
                  a < b => KeyLess(jobs, litems'[b], litems'[a])
            /\ lpc = "start" =>
                  /\ IsHeadOf(jobs, litems', M)
                  /\ Len(litems') = PageLen(llimit', M)
            /\ lcursor' # NoCursor <=> further # {}
            /\ lpc' = "end" =>
                  \A j \in lfirst' :
                     Cardinality({i \in 1..Len(lseen') : lseen'[i] = j}) = 1]_vars

\* C9 witness: a traversal of several calls has ended, of a Store that held
\* two matching jobs at the first call and got a job inserted since
C9_Witness ==
    /\ lpc = "end"
    /\ lcalls >= 2
    /\ Cardinality(lfirst) >= 2
    /\ \E j \in DOMAIN jobs : j \notin lfirst /\ Matches(jobs, j, lreq)
                                /\ j \in DOMAIN apiPending

\* ---------------------------------------------------------- cursor codec
\* C10: for a pair whose created_at holds no "|", decoding the encoded cursor
\* returns the pair, from the unpadded text and from the text with its "="
\* padding appended alike.
C10_CursorRoundTrip ==
    (\A i \in 1..Len(cpair.created_at) : cpair.created_at[i] # Bar) =>
        /\ cback # NotDecoded =>
              cback = [ok |-> TRUE, created_at |-> cpair.created_at,
                       job_id |-> cpair.job_id]
        /\ cbackPadded # NotDecoded =>
              cbackPadded = [ok |-> TRUE, created_at |-> cpair.created_at,
                             job_id |-> cpair.job_id]

\* C10 witness: both forms have been decoded of a cursor that needs padding
\* and whose job_id holds a "|"
C10_Witness ==
    /\ cback # NotDecoded
    /\ cbackPadded # NotDecoded
    /\ Len(ctext) % 4 # 0
    /\ \E i \in 1..Len(cpair.job_id) : cpair.job_id[i] = Bar
    /\ \A i \in 1..Len(cpair.created_at) : cpair.created_at[i] # Bar
    /\ Len(cpair.created_at) > 0

\* ------------------------------------------------------ artifact download
\* C11: the download returns file bytes only when <job>/artifacts/<name>
\* resolves strictly underneath the artifacts root to a regular file, and
\* then the bytes of that file; a name that resolves outside the root, to the
\* root itself or to a directory yields 404; job.json and another job's
\* files are never returned.
C11_DownloadConfined ==
    resp.op = "artifact" /\ resp.job = 1 =>
        LET root == ArtifactsDir(1)
            target == Resolve(tree, root, resp.arg)
            under == /\ Len(target) > Len(root)
                     /\ \A i \in 1..Len(root) : target[i] = root[i]
        IN /\ resp.code \in {200, 404}
           /\ resp.code = 200 <=> (under /\ target \in Files(tree))
           /\ resp.code = 200 =>
                 /\ resp.body = target
                 /\ resp.body[1] = JobDirName(1)
                 /\ resp.body[2] = "artifacts"
                 /\ resp.body # JobJson(1)

\* C11 witness: a name with ".." segments was answered 404 although it
\* resolves to an existing file (job.json or a file of the other job)
C11_Witness ==
    /\ resp.op = "artifact"
    /\ resp.job = 1
    /\ resp.code = 404
    /\ \E i \in 1..Len(resp.arg) : resp.arg[i] = ".."
    /\ Resolve(tree, ArtifactsDir(1), resp.arg) \in Files(tree)
\* C12: with a non-empty allowlist, POST /api/jobs is rejected with 403
\* exactly when some host of an http(s):// URL of the command, read up to
\* the next "/" or whitespace and lowercased, is not in the allowlist;
\* "curl http://evil.test/x" is rejected with allowlist [good.test] and
\* accepted with 201 with allowlist [evil.test].
C12_DeniedIffForeignHost ==
    (/\ resp.op = "create"
     /\ ValidRequest(resp.req)
     /\ resp.req.allowlist.given
     /\ resp.req.allowlist.domains # {}) =>
        LET hosts == FindHosts(resp.req.command, 1, {"/", " "})
            allowset == {Lower(d) : d \in resp.req.allowlist.domains}
        IN /\ resp.code \in {201, 403}
           /\ resp.code = 403 <=> \E h \in hosts : h \notin allowset

\* C13: a POST /api/jobs answered 400 or 403 changes neither the Store nor
\* the Job State Directory; one answered 201 has inserted exactly one queued
\* row and written, under the same job_id, one Job Document with status
\* queued, no attempt and an empty manifest.
C13_CreateAllOrNothing ==
    [][/\ (resp' # resp /\ resp'.op = "create" /\ resp'.code \in {400, 403})
            => UNCHANGED storeVars
       /\ DOMAIN jobs' # DOMAIN jobs =>
            \E j \in DOMAIN jobs' \ DOMAIN jobs :
               /\ DOMAIN jobs' = DOMAIN jobs \cup {j}
               /\ jobs'[j].status = "queued"
               /\ j \in DOMAIN apiPending' \ DOMAIN apiPending
               /\ jobs'[j].command = apiPending'[j].request.command
               /\ docs' = docs
       /\ DOMAIN apiPending \ DOMAIN apiPending' # {} =>
            \E j \in DOMAIN apiPending \ DOMAIN apiPending' :
               /\ resp'.op = "create" /\ resp'.code = 201
               /\ DOMAIN apiPending' = DOMAIN apiPending \ {j}
               /\ jobs' = jobs /\ j \in DOMAIN jobs
               /\ resp'.req.command = jobs[j].command
               /\ ValidRequest(resp'.req)
               /\ docs'[j].job_id = j
               /\ docs'[j].status = "queued"
               /\ docs'[j].attempts = <<>>
               /\ docs'[j].artifacts_manifest = {}
               /\ \A k \in DOMAIN docs' \ {j} :
                     k \in DOMAIN docs /\ docs'[k] = docs[k]]_vars
\* a request was rejected after a job was created and its document written
C13_Witness ==
    /\ DOMAIN docs = PolicyJobIds
    /\ resp.op = "create" /\ resp.code = 403

\* C14: once POST /api/jobs has returned 201 for a job, every GET
\* /api/jobs/{job_id} answers 200 with the same job_id, whatever the Worker
\* did in between; the answer is 404 exactly when the Store row or the Job
\* Document is missing.
C14_GetAfterCreate ==
    [][(resp' # resp /\ resp'.op = "get") =>
          LET j == resp'.job IN
          /\ (j \in DOMAIN jobs /\ j \notin DOMAIN apiPending) =>
                (resp'.code = 200 /\ resp'.body.job_id = j)
          /\ resp'.code = 404 <=>
                (j \notin DOMAIN jobs \/ j \notin DOMAIN docs)]_vars

\* C15: GET /api/jobs/{job_id}/logs answers 404 when the job is unknown (no
\* row, or no Job Document), 409 when the document has no attempts or the
\* selected attempt has no NDJSON file, and otherwise 200 with the lines of
\* the selected attempt, the last one when attempt_id is omitted.
C15_LogsAnswer ==
    [][(resp' # resp /\ resp'.op = "logs") =>
          LET j == resp'.job
              unknown == j \notin DOMAIN jobs \/ j \notin DOMAIN docs
          IN IF unknown THEN resp'.code = 404
             ELSE LET attempts == docs[j].attempts
                      sel == IF resp'.arg = <<>>
                             THEN attempts[Len(attempts)].attempt_id
                             ELSE resp'.arg
                  IN IF attempts = <<>> THEN resp'.code = 409
                     ELSE IF sel \notin logs THEN resp'.code = 409
                     ELSE resp'.code = 200 /\ resp'.body = sel]_vars

\* C16: from the claim of a job until its command returns, GET
\* /api/jobs/{job_id}/logs answers 409; it sends lines of an attempt only
\* after the attempt's command has completed.
C16_NoLiveLogs ==
    [][(resp' # resp /\ resp'.op = "logs") =>
          LET j == resp'.job IN
          /\ (\E w \in Workers : wjob[w] = j /\ pc[w] \in {"load", "mark", "run"})
                => resp'.code = 409
          /\ resp'.code = 200 => (j \in JobIds /\ hist[j].ran)]_vars

\* C17: in every Job Document whose status is succeeded or failed, the last
\* attempt's status is the document's status and every earlier attempt is
\* terminal; a document holds one attempt per claim of its job, never more
\* than one entry.
C17_AttemptsFollowStatus ==
    \A j \in DOMAIN docs :
       LET d == docs[j] IN
       /\ Len(d.attempts) <= 1
       /\ Len(d.attempts) <= hist[j].claims
       /\ d.status \in Terminal =>
             /\ Len(d.attempts) = hist[j].claims
             /\ d.attempts # <<>>
             /\ Last(d.attempts).status = d.status
             /\ \A i \in 1..(Len(d.attempts) - 1) :
                   d.attempts[i].status \in Terminal
\* one document ended succeeded, another failed by the except clause
C17_Witness ==
    \E j, k \in DOMAIN docs :
       /\ docs[j].status = "succeeded" /\ Len(docs[j].attempts) = 1
       /\ docs[k].status = "failed" /\ hist[k].exc # NULL
       /\ Last(docs[k].attempts).status = "failed"

\* C18: in every Job Document written by the API or by a Worker, a non-null
\* runner.selected comes with selection_reason "requested by user" when
\* runner.requested is non-null and "default shell runner" otherwise.
C18_SelectionReason ==
    \A j \in DOMAIN docs :
       LET r == docs[j].runner IN
       r.selected # NULL =>
          r.selection_reason = IF r.requested # NULL THEN "requested by user"
                               ELSE "default shell runner"
\* a document of a requested runner written by the API, and a document
\* written by a Worker for a job that requested none
C18_Witness ==
    \E j, k \in DOMAIN docs :
       /\ docs[j].runner.requested # NULL /\ docs[j].attempts = <<>>
       /\ docs[j].runner.selected # NULL
       /\ docs[k].runner.requested = NULL /\ docs[k].attempts # <<>>
       /\ docs[k].runner.selected = "shell"

\* C19: with RATE_LIMIT_PER_MIN = N > 0 a host is admitted at most N
\* requests in any window of 60 seconds (Window ticks, half-open); a request
\* of a host is answered 429 exactly when N requests of that same host were
\* admitted within the window before it, and then the handler does not run
\* and nothing is created; what other hosts did plays no part; with N = 0
\* every request is admitted.
C19_RateLimited ==
    /\ [](max_per_min > 0 =>
            \A h \in Hosts : \A s \in Clock :
               Cardinality({i \in 1..Len(Admitted(h)) :
                               /\ s <= Admitted(h)[i]
                               /\ Admitted(h)[i] < s + Window})
                   <= max_per_min)
    /\ [][\A h \in Hosts :
             LET recent == {i \in 1..Len(Admitted(h)) :
                               rlclock - Admitted(h)[i] < Window}
                 full == max_per_min > 0
                            /\ Cardinality(recent) >= max_per_min
             IN /\ (resp' # resp /\ resp'.op = "limit" /\ resp'.arg = <<h>>)
                      => /\ resp'.code = 429
                         /\ full
                         /\ UNCHANGED <<storeVars, admitted>>
                /\ (h \in DOMAIN admitted'
                       /\ (h \notin DOMAIN admitted
                              \/ admitted'[h] # admitted[h]))
                      => /\ ~full
                         /\ admitted'[h] = Append(Admitted(h), rlclock)]_vars
\* host a is turned away at a time at which host b is admitted, N > 0
C19_Witness ==
    /\ max_per_min > 0
    /\ resp.op = "limit" /\ resp.code = 429 /\ resp.arg = <<"a">>
    /\ Len(Admitted("a")) >= max_per_min
    /\ \E i \in 1..Len(Admitted("b")) : Admitted("b")[i] = rlclock
    /\ resp.body = <<rlclock>>
    /\ DOMAIN jobs # {}

\* C20: for every job the API writes the initial Job Document before any
\* Worker writes the job's job.json, so the attempt and the status a Worker
\* recorded are never replaced by the initial document: a document that has
\* left queued never returns to queued, and one that holds an attempt never
\* loses it.
C20_InitialWriteFirst ==
    [][\A j \in DOMAIN docs' :
          /\ (j \in DOMAIN docs /\ docs[j].status # "queued")
                => docs'[j].status # "queued"
          /\ (j \in DOMAIN docs /\ docs[j].attempts # <<>>)
                => docs'[j].attempts # <<>>
          /\ (docs'[j].attempts # <<>>
                 /\ (j \notin DOMAIN docs \/ docs'[j] # docs[j]))
                => j \notin DOMAIN apiPending]_vars

\* C21: for each job a Worker processes, the row becomes running, then the
\* Worker writes job.json with status running and a new running attempt,
\* then the command is launched, and the terminal status is in the row and
\* written to job.json before the Worker polls for its next claim.
C21_StepsInOrder ==
    [][\A w \in Workers :
          LET j == wjob[w] IN
          /\ (pc[w] = "claiming" /\ pc'[w] = "load")
                => jobs'[j].status = "running"
          /\ (pc[w] # "mark" /\ pc'[w] = "mark")
                => (pc[w] = "load" /\ jobs[j].status = "running")
          /\ (pc[w] # "run" /\ pc'[w] = "run")
                => /\ pc[w] = "mark"
                   /\ jobs[j].status = "running"
                   /\ ~hist[j].ran
                   /\ docs'[j].status = "running"
                   /\ docs'[j].attempts # <<>>
                   /\ Last(docs'[j].attempts).status = "running"
                   /\ j \in DOMAIN docs =>
                         \A i \in 1..Len(docs[j].attempts) :
                            docs[j].attempts[i].attempt_id
                               # Last(docs'[j].attempts).attempt_id
          /\ (j \in JobIds /\ ~hist[j].ran /\ hist'[j].ran)
                => pc[w] = "run"
          /\ (pc[w] \in Busy /\ pc'[w] = "poll")
                => /\ jobs'[j].status \in Terminal
                   /\ hist[j].claims = 1
                   /\ j \in DOMAIN docs'
                   /\ docs'[j].status \in Terminal
                   /\ docs'[j].status = jobs'[j].status
                   /\ docs'[j].attempts # <<>>]_vars
\* a Worker has finished one job, whose command ran, and claimed another
C21_Witness ==
    \E j, k \in DOMAIN jobs :
       /\ j # k
       /\ hist[j].done /\ hist[j].ran
       /\ jobs[j].status \in Terminal
       /\ j \in DOMAIN docs /\ docs[j].status \in Terminal
       /\ \E w \in Workers : wjob[w] = k /\ pc[w] = "run"

\* the matching rows a listing call selects from: all of them at the first
\* call, those after the last item of the previous page at a later call
Selectable ==
    {k \in DOMAIN jobs :
        /\ Matches(jobs, k, lreq)
        /\ lpc = "paging" => KeyLess(jobs, k, litems[Len(litems)])}

\* the cursor text of a row's (created_at, job_id)
CursorOf(k) ==
    EncodeCursor(FormatTimestamp(jobs[k].created_at), JobIdText(k))

\* C22 as stated: list_jobs fetches up to limit + 1 rows and, when the extra
\* row is present, next_cursor encodes the (created_at, job_id) of that
\* extra row.
C22_CursorOfExtraRow ==
    [][lcalls' = lcalls + 1 =>
         LET rest == Selectable \ ItemSet(litems') IN
         /\ Len(litems') <= llimit'
         /\ lcursor' # NoCursor <=> Cardinality(Selectable) > llimit'
         /\ lcursor' # NoCursor =>
               \E extra \in rest :
                  /\ \A k \in rest \ {extra} : KeyLess(jobs, k, extra)
                  /\ lcursor' = CursorOf(extra)]_vars

\* C22, amended: list_jobs fetches up to limit + 1 rows and, when the extra
\* row is present, returns the first limit rows and a next_cursor that
\* encodes the (created_at, job_id) of the last row returned, the row just
\* before the extra one.
C22_CursorOfLastItem ==
    [][lcalls' = lcalls + 1 =>
         LET rest == Selectable \ ItemSet(litems') IN
         /\ Len(litems') <= llimit'
         /\ lcursor' # NoCursor <=> Cardinality(Selectable) > llimit'
         /\ lcursor' # NoCursor =>
               /\ Len(litems') = llimit'
               /\ lcursor' = CursorOf(litems'[Len(litems')])
               /\ \A k \in rest : lcursor' # CursorOf(k)]_vars
\* a page of two rows came with a cursor: a third row had been fetched
C22_Witness ==
    /\ lcalls >= 1
    /\ lcursor # NoCursor
    /\ llimit = 2 /\ Len(litems) = 2
    /\ lcursor = CursorOf(litems[2])
    /\ \E k \in DOMAIN jobs : Matches(jobs, k, lreq) /\ KeyLess(jobs, k, litems[2])

\* C23: a claim sets runner_selected to "shell" only when it is null and
\* leaves a runner_selected written at submit time as it is; apart from the
\* status and a null runner_selected it changes no column of the claimed row
\* and no column of any other row.
C23_ClaimFrame ==
    [][\A j \in JobIds :
          hist'[j].claims > hist[j].claims =>
             /\ DOMAIN jobs' = DOMAIN jobs
             /\ jobs[j].status = "queued" /\ jobs'[j].status = "running"
             /\ jobs'[j].runner_selected =
                   (IF jobs[j].runner_selected = NULL
                    THEN "shell" ELSE jobs[j].runner_selected)
             /\ jobs'[j].command = jobs[j].command
             /\ jobs'[j].created_at = jobs[j].created_at
             /\ jobs'[j].runner_requested = jobs[j].runner_requested
             /\ \A k \in DOMAIN jobs \ {j} : jobs'[k] = jobs[k]]_vars
\* one claimed row kept the runner chosen at submit time, another got "shell"
C23_Witness ==
    \E j, k \in DOMAIN jobs :
       /\ hist[j].claims = 1 /\ jobs[j].runner_requested = "docker"
       /\ jobs[j].runner_selected = "docker"
       /\ hist[k].claims = 1 /\ jobs[k].runner_requested = NULL
       /\ jobs[k].runner_selected = "shell"

\* C24: when the claim raises, the transaction is rolled back, so no row's
\* status or runner_selected has changed, and the Worker does not terminate:
\* it sleeps poll_interval and polls again.
C24_ClaimErrorSwallowed ==
    [][\A w \in Workers :
          (pc[w] = "claiming" /\ pc'[w] # "claiming" /\ faults' = faults + 1)
             => /\ jobs' = jobs
                /\ dbLock' # w
                /\ \A j \in JobIds : rowLock'[j] # w
                /\ pc'[w] = "poll"]_vars

\* job.json, the attempt logs or the artifacts of job j differ after the step
DirWritten(j) ==
    \/ j \in DOMAIN docs' /\ (j \notin DOMAIN docs \/ docs'[j] # docs[j])
    \/ artifacts'[j] # artifacts[j]
    \/ \E a \in logs' \ logs : a[1] = j

\* the step is the API's write of the initial job.json of job j
ApiWrites(j) == j \in DOMAIN apiPending /\ j \notin DOMAIN apiPending'

\* C25: at most one Worker writes under a job's directory: a job is claimed
\* by one Worker only, and once claimed no Worker other than the claiming one
\* writes its job.json, logs or artifacts.
C25_OneWriter ==
    [][\A j \in JobIds :
          /\ hist'[j].claims <= 1
          /\ \A w \in Workers :
                (wjob'[w] = j /\ pc'[w] \in Busy)
                   => /\ hist'[j].claims = 1
                      /\ \A v \in Workers \ {w} : ~(wjob'[v] = j /\ pc'[v] \in Busy)
                      /\ (wjob[w] # j \/ pc[w] \notin Busy)
                            => (pc[w] = "claiming" /\ hist[j].claims = 0)
          /\ (DirWritten(j) /\ ~ApiWrites(j))
                => \E w \in Workers :
                      /\ wjob[w] = j /\ pc[w] \in Busy /\ pc'[w] # pc[w]
                      /\ \A v \in Workers \ {w} : wjob[v] # j /\ pc'[v] = pc[v]]_vars
\* two Workers at work at once, each having written the job.json, a log and
\* an artifact of its own job
C25_Witness ==
    \E w, v \in Workers :
       /\ w # v /\ pc[w] = "update" /\ pc[v] = "update" /\ wjob[w] # wjob[v]
       /\ \A j \in {wjob[w], wjob[v]} :
             /\ j \in DOMAIN docs /\ docs[j].status = "running"
             /\ artifacts[j] # {}
             /\ \E a \in logs : a[1] = j

\* ------------------------------------------------- the artifacts manifest
\* What a job's artifacts directory can hold at a relative path: nothing, a
\* regular file, a regular file the Worker may not open, a directory, a
\* symlink to a regular file, a symlink to nothing.
EntryKinds == {"none", "file", "locked", "dir", "link", "dangling"}

\* the names a directory may hold, in the order os.walk lists them: a and b
\* under artifacts/, c under a
Children(dir) ==
    IF dir = <<>> THEN <<"a", "b">>
    ELSE IF dir = <<"a">> THEN <<"c">>
    ELSE <<>>
ManifestPaths == {<<"a">>, <<"b">>, <<"a", "c">>}

\* the artifacts directories: a/c exists only in a directory a
ManifestTrees ==
    {t \in [ManifestPaths -> EntryKinds] :
        t[<<"a", "c">>] # "none" => t[<<"a">>] = "dir"}

\* os.stat(full_path) succeeds (it follows a symlink)
StatOk(kind) == kind \in {"file", "locked", "link"}
\* open(full_path, "rb") and the reads succeed
ReadOk(kind) == kind \in {"file", "link"}

\* the manifest entry of a file: name = path = rel_path (sha256, size_bytes,
\* content_type and created_at are left out)
ManifestEntry(rel_path) == [name |-> rel_path, path |-> rel_path]

\* (every name of the listing taken as a file)
WalkFilesAll(kind) == kind # "none"

\* the names os.walk yields as files of a directory: all that are no
\* directory
WalkFiles(kind) == kind \notin {"none", "dir"}

RECURSIVE Walk(_, _, _)
\* the loop over os.walk(artifacts_dir): the entries of the files among names
\* of directory dir, then those of its subdirectories; a file that cannot be
\* stat'ed or read is skipped
Walk(t, dir, names) ==
    IF names = <<>> THEN <<>>
    ELSE LET rel_path == dir \o <<Head(names)>>
             kind == t[rel_path]
             rest == Walk(t, dir, Tail(names))
         IN IF WalkFiles(kind)
            THEN IF StatOk(kind) /\ ReadOk(kind)
                 THEN <<ManifestEntry(rel_path)>> \o rest
                 ELSE rest
            ELSE IF kind = "dir"
            THEN rest \o Walk(t, rel_path, Children(rel_path))
            ELSE rest

\* _build_artifacts_manifest(job_id, artifacts_dir); the directory exists,
\* main() has made it
BuildArtifactsManifest(t) == Walk(t, <<>>, Children(<<>>))

\* the command, or a process it left behind, creates, replaces or removes
\* an entry of the artifacts directory
ManifestCommand ==
    /\ pc[1] \in {"finish", "logged", "h_write"}
    /\ \E t \in ManifestTrees :
          /\ \E p \in ManifestPaths :
                /\ t[p] # tree[p]
                /\ \A q \in ManifestPaths \ {p, <<"a", "c">>} : t[q] = tree[q]
          /\ tree' = t
    /\ UNCHANGED <<storeVars, cursorVars, listVars, resp, max_per_min,
                   requests, rlclock, admitted>>

\* end of the try block: the manifest is built and job.json written
ManifestTry ==
    /\ pc[1] = "finish"
    /\ docs' = [docs EXCEPT ![1] =
                  [@ EXCEPT !.status = "succeeded",
                            !.completed_at = SomeTime,
                            !.artifacts_manifest = BuildArtifactsManifest(tree)]]
    /\ pc' = [pc EXCEPT ![1] = "logged"]
    /\ UNCHANGED <<cursorVars, listVars, apiVars, engine, jobs, dbLock, rowLock,
                   artifacts, cwdArt, logs, apiPending, wjob, wstate, wres,
                   wexc, faults, hist>>

\* _log_runner(.., "job_finished", ..) returns: back to the top of the loop
ManifestLogged ==
    /\ pc[1] = "logged"
    /\ pc' = [pc EXCEPT ![1] = "poll"]
    /\ UNCHANGED <<cursorVars, listVars, apiVars, engine, jobs, dbLock, rowLock,
                   docs, artifacts, cwdArt, logs, apiPending, wjob, wstate,
                   wres, wexc, faults, hist>>

\* a call of the try block raises, before the manifest is built or after
\* job.json was written (_log_runner): control goes to the except clause
ManifestRaise ==
    /\ pc[1] \in {"finish", "logged"}
    /\ pc' = [pc EXCEPT ![1] = "h_write"]
    /\ UNCHANGED <<cursorVars, listVars, apiVars, engine, jobs, dbLock, rowLock,
                   docs, artifacts, cwdArt, logs, apiPending, wjob, wstate,
                   wres, wexc, faults, hist>>

\* except clause: the manifest is built again and job.json written
ManifestExcept ==
    /\ pc[1] = "h_write"
    /\ docs' = [docs EXCEPT ![1] =
                  [@ EXCEPT !.status = "failed",
                            !.completed_at = SomeTime,
                            !.artifacts_manifest = BuildArtifactsManifest(tree)]]
    /\ pc' = [pc EXCEPT ![1] = "poll"]
    /\ UNCHANGED <<cursorVars, listVars, apiVars, engine, jobs, dbLock, rowLock,
                   artifacts, cwdArt, logs, apiPending, wjob, wstate, wres,
                   wexc, faults, hist>>

\* Worker 1 has run the command of job 1 and is about to finish the attempt;
\* the artifacts directory is as the command left it
InitManifest ==
    /\ engine \in Engines
    /\ jobs = [j \in {1} |->
                 [status |-> "running", command |-> DefaultCommand,
                  created_at |-> 0, runner_requested |-> NULL,
                  runner_selected |-> "shell"]]
    /\ rowLock = [j \in JobIds |-> 0]
    /\ docs = [j \in {1} |->
                 [InitialDoc(1, 0, NULL) EXCEPT
                     !.status = "running",
                     !.runner = RunnerDefaults(@),
                     !.attempts = <<NewAttempt(<<1, 1>>, SomeTime)>>,
                     !.artifacts_manifest = <<>>]]
    /\ artifacts = [j \in JobIds |-> {}]
    /\ logs = {}
    /\ hist = [j \in JobIds |->
                 IF j = 1
                 THEN [EmptyHist EXCEPT !.claims = 1, !.minted = 1, !.ran = TRUE,
                                        !.result = FinishedResult]
                 ELSE EmptyHist]
    /\ dbLock = 0
    /\ cwdArt = {}
    /\ apiPending = <<>>
    /\ pc = [w \in Workers |-> IF w = 1 THEN "finish" ELSE "crashed"]
    /\ wjob = [w \in Workers |-> IF w = 1 THEN 1 ELSE NoJob]
    /\ wstate = [w \in Workers |-> NoDoc]
    /\ wres = [w \in Workers |-> NoRes]
    /\ wexc = [w \in Workers |-> NULL]
    /\ faults = 0
    /\ CursorIdle
    /\ ListIdle
    /\ resp = NoResp
    /\ tree \in ManifestTrees
    /\ max_per_min = 0
    /\ requests = <<>>
    /\ rlclock = 0
    /\ admitted = <<>>

NextManifest ==
    \/ ManifestCommand
    \/ ManifestTry
    \/ ManifestLogged
    \/ ManifestRaise
    \/ ManifestExcept

SpecManifest == InitManifest /\ [][NextManifest]_vars

\* the entries of a manifest that are named p
EntriesNamed(manifest, p) ==
    {i \in 1..Len(manifest) : manifest[i].name = p}

\* C26 as stated: after a Worker finishes an attempt, on the success path and
\* on the exception path alike, artifacts_manifest holds exactly one entry per
\* regular file under the job's artifacts directory at that moment, named by
\* its relative path, and no entry for a directory; entries of an earlier
\* manifest are not kept.
C26_EntryPerRegularFile ==
    [][docs' # docs =>
         LET manifest == docs'[1].artifacts_manifest IN
         /\ \A p \in ManifestPaths :
               Cardinality(EntriesNamed(manifest, p)) =
                  (IF tree[p] \in {"file", "locked"} THEN 1 ELSE 0)
         /\ \A i \in 1..Len(manifest) :
               manifest[i].name \in ManifestPaths
               /\ manifest[i].path = manifest[i].name]_vars

\* C26, amended: the manifest holds exactly one entry per file under the
\* artifacts directory that the Worker can stat and read at that moment (a
\* regular file, or a symlink to one), named by its relative path; a file
\* it cannot stat or read is left out, a directory has no entry, and entries
\* of an earlier manifest are not kept.
C26_EntryPerReadableFile ==
    [][docs' # docs =>
         LET manifest == docs'[1].artifacts_manifest IN
         /\ \A p \in ManifestPaths :
               Cardinality(EntriesNamed(manifest, p)) =
                  (IF tree[p] \in {"file", "link"} THEN 1 ELSE 0)
         /\ \A i \in 1..Len(manifest) :
               manifest[i].name \in ManifestPaths
               /\ manifest[i].path = manifest[i].name]_vars
\* the except clause has written the manifest of a directory that holds the
\* directory a with the file a/c: the file is listed, the directory is not
C26_Witness ==
    /\ pc[1] = "poll"
    /\ docs[1].status = "failed"
    /\ tree[<<"a">>] = "dir" /\ tree[<<"a", "c">>] = "file"
    /\ tree[<<"b">>] = "none"
    /\ docs[1].artifacts_manifest = <<ManifestEntry(<<"a", "c">>)>>

\* ------------------------------------------------------ the log endpoint
\* The lines of an attempt's NDJSON file: a record the Worker wrote with
\* _log_worker_output (ts, stream, line), a blank line, or a record cut short
\* (read while the Worker appends it), which json.loads rejects.
LogTexts == {"x", ""}
LogRecord(ts, stream, line) ==
    [kind |-> "record", ts |-> ts, stream |-> stream, line |-> line]
BlankLine == [kind |-> "blank", ts |-> NoTime, stream |-> NULL, line |-> ""]
TornLine == [kind |-> "torn", ts |-> NoTime, stream |-> NULL, line |-> ""]
\* what can come next in a file of n lines; ts is the time of writing
NextLines(n) ==
    {LogRecord(n + 1, st, text) : st \in {"stdout", "stderr"}, text \in LogTexts}
        \cup {BlankLine, TornLine}

\* no log file
NoLogFile == [readable |-> TRUE, lines |-> <<>>]

RECURSIVE ReadLines(_)
\* the loop of _read_ndjson: a blank line is skipped, a line json.loads
\* rejects is skipped, the others are appended as parsed
ReadLines(lines) ==
    IF lines = <<>> THEN <<>>
    ELSE LET line == Head(lines) IN
         IF line.kind = "blank" THEN ReadLines(Tail(lines))
         ELSE IF line.kind = "torn" THEN ReadLines(Tail(lines))
         ELSE <<[ts |-> line.ts, stream |-> line.stream, line |-> line.line]>>
                 \o ReadLines(Tail(lines))

\* _read_ndjson: [] when the file cannot be opened or read (OSError)
ReadNdjson(file) ==
    IF ~file.readable THEN <<>> ELSE ReadLines(file.lines)

\* _log_lines_from_items
LogLinesFromItems(items) ==
    [i \in 1..Len(items) |->
        [ts |-> items[i].ts,
         level |-> IF items[i].stream = "stderr" THEN "error" ELSE "info",
         message |-> items[i].line]]

\* (mapped[:tail])
FirstLines(mapped, tail) ==
    IF Len(mapped) > tail THEN SubSeq(mapped, 1, tail) ELSE mapped

\* mapped[-tail:] when len(mapped) > tail
LastLines(mapped, tail) ==
    IF Len(mapped) > tail
    THEN SubSeq(mapped, Len(mapped) - tail + 1, Len(mapped))
    ELSE mapped

\* f"logcur_{len(mapped)}"
LogCursor(mapped) == <<"logcur_", Len(mapped)>>

\* get_job_logs with stream = 0, from the read of the log file on: the lines
\* and the cursor of the JobLogsLinesResponse
JobLogsLines(file, tail) ==
    LET raw_lines == ReadNdjson(file)
        mapped == LastLines(LogLinesFromItems(raw_lines), tail)
    IN [lines |-> mapped, cursor |-> LogCursor(mapped)]

\* the Worker appends a line to the attempt log
LogAppend ==
    /\ Len(tree.lines) < MaxLogLines
    /\ \E line \in NextLines(Len(tree.lines)) :
          tree' = [tree EXCEPT !.lines = Append(@, line)]
    /\ UNCHANGED <<storeVars, cursorVars, listVars, resp, max_per_min,
                   requests, rlclock, admitted>>

\* GET /api/jobs/1/logs?tail=t once the log file exists
GetLogLines ==
    /\ tree.lines # <<>>
    /\ \E tail \in 1..MaxTail :
          resp' = Response("loglines", 1, NoRequest, <<tail>>, 200,
                           JobLogsLines(tree, tail))
    /\ UNCHANGED <<storeVars, cursorVars, listVars, tree, max_per_min,
                   requests, rlclock, admitted>>

\* job 1 has run; its attempt log is about to be written, and the API
\* process can open it or not
InitLogs ==
    /\ engine \in Engines
    /\ WorkersIdle
    /\ CursorIdle
    /\ ListIdle
    /\ jobs = [j \in {1} |->
                 [status |-> "succeeded", command |-> DefaultCommand,
                  created_at |-> 0, runner_requested |-> NULL,
                  runner_selected |-> "shell"]]
    /\ rowLock = [j \in JobIds |-> 0]
    /\ docs = [j \in {1} |-> FinishedDoc(1, 0)]
    /\ artifacts = [j \in JobIds |-> {}]
    /\ logs = {<<1, 1>>}
    /\ hist = [j \in JobIds |->
                 IF j = 1
                 THEN [EmptyHist EXCEPT !.claims = 1, !.minted = 1, !.ran = TRUE,
                                        !.result = FinishedResult, !.done = TRUE]
                 ELSE EmptyHist]
    /\ resp = NoResp
    /\ tree \in {[NoLogFile EXCEPT !.readable = b] : b \in BOOLEAN}
    /\ max_per_min = 0
    /\ requests = <<>>
    /\ rlclock = 0
    /\ admitted = <<>>

NextLogs == LogAppend \/ GetLogLines

SpecLogs == InitLogs /\ [][NextLogs]_vars

\* the well-formed records of a file, in file order
WellFormed(lines) == SelectSeq(lines, LAMBDA l : l.kind = "record")

\* the answer C27 describes for records recs and tail t
TailAnswer(recs, t) ==
    LET n == Len(recs)
        k == IF n < t THEN n ELSE t
    IN [lines |-> [i \in 1..k |->
                      [ts |-> recs[n - k + i].ts,
                       level |-> IF recs[n - k + i].stream = "stderr"
                                 THEN "error" ELSE "info",
                       message |-> recs[n - k + i].line]],
        cursor |-> <<"logcur_", k>>]

\* C27 as stated: for an attempt log holding n well-formed records, the logs
\* endpoint called with tail = t returns the last min(n, t) records in file
\* order, each with level "error" when its stream is stderr and "info"
\* otherwise and message equal to the record's line, and the cursor is
\* "logcur_" followed by the number of lines returned; blank and malformed
\* lines of the file are skipped without failing.
C27_LastRecords ==
    [][(resp' # resp /\ resp'.op = "loglines") =>
          /\ resp'.code = 200
          /\ resp'.body = TailAnswer(WellFormed(tree.lines), resp'.arg[1])]_vars

\* C27, amended: the same answer whenever the API can read the log file; a
\* log file that exists but cannot be opened or read is answered like an
\* empty log, with no lines and the cursor "logcur_0".
C27_LastRecordsWhenReadable ==
    [][(resp' # resp /\ resp'.op = "loglines") =>
          /\ resp'.code = 200
          /\ resp'.body =
                (IF tree.readable
                 THEN TailAnswer(WellFormed(tree.lines), resp'.arg[1])
                 ELSE [lines |-> <<>>, cursor |-> <<"logcur_", 0>>])]_vars
\* a file of a stdout record, a cut record and a stderr record, asked with
\* tail = 1: the answer is the stderr record alone, as an error line
C27_Witness ==
    /\ resp.op = "loglines" /\ resp.arg = <<1>>
    /\ tree.readable
    /\ Len(tree.lines) = 3
    /\ tree.lines[1].kind = "record" /\ tree.lines[1].stream = "stdout"
    /\ tree.lines[2].kind = "torn"
    /\ tree.lines[3].kind = "record" /\ tree.lines[3].stream = "stderr"
    /\ resp.body.cursor = <<"logcur_", 1>>
    /\ Len(resp.body.lines) = 1
    /\ resp.body.lines[1].level = "error"
    /\ resp.body.lines[1].ts = 3

\* ------------------------------------------------ the policy of a job
\* the limits clients put into policy.limits
LimitValues == 0..MaxLimitValue

\* "policy": null of the answer
NoPolicyOut ==
    [given |-> FALSE, allowlist_domains |-> NoAllowlist,
     limits |-> [max_runtime_seconds |-> NoInt, max_output_mb |-> NoInt]]

\* _map_policy_out: None for no policy; limits = policy.get("limits") or {},
\* whose missing keys read as None (as NoStoredLimits does)
MapPolicyOut(policy) ==
    IF ~policy.given THEN NoPolicyOut
    ELSE LET limits == policy.limits
             max_runtime == IF limits.max_runtime_seconds # NoInt
                            THEN limits.max_runtime_seconds
                            ELSE limits.time_limit_seconds
         IN [given |-> TRUE, allowlist_domains |-> policy.allowlist_domains,
             limits |-> [max_runtime_seconds |-> max_runtime,
                         max_output_mb |-> limits.max_output_mb]]

\* get_job, given what _read_job_file returned: the policy of its answer
GetJobPolicyResponse(rows, doc, j) ==
    IF j \notin DOMAIN rows
    THEN Response("policy", j, NoRequest, <<>>, 404, NoPolicyOut)
    ELSE IF doc = NoDoc
    THEN Response("policy", j, NoRequest, <<>>, 404, NoPolicyOut)
    ELSE Response("policy", j, NoRequest, <<>>, 200, MapPolicyOut(doc.policy))

PolicyNotAsked == resp.op # "policy"

\* a client reads a job
GetJobPolicy ==
    /\ PolicyNotAsked
    /\ \E j \in JobIds : \E doc \in ReadJobFile(j) :
          resp' = GetJobPolicyResponse(jobs, doc, j)
    /\ UNCHANGED <<storeVars, cursorVars, listVars, tree, max_per_min,
                   requests, rlclock, admitted>>

\* the bodies with policy.limits = {max_runtime_seconds: r, max_output_mb: m}
LimitsRequests ==
    {LimitsRequest(DefaultCommand, PolicyLimits(r, m)) :
        r \in LimitValues, m \in LimitValues}

\* create_job for a body with limits
LimitsPost == PolicyNotAsked /\ CreateJob({1}, LimitsRequests)

\* the policies of a document that create_job did not write: limits with
\* max_runtime_seconds, with time_limit_seconds, with both, with neither
OtherPolicies ==
    {StoredPolicy(NoAllowlist, StoredLimits(a, b, NoInt)) :
        a \in {NoInt, 0}, b \in {NoInt, 1}}

\* job 2 is there, finished, with a document holding some policy; job 1 is
\* about to be created; one Worker process runs
InitPolicy ==
    /\ engine \in Engines
    /\ jobs = [j \in {2} |->
                 [status |-> "succeeded", command |-> DefaultCommand,
                  created_at |-> 0, runner_requested |-> NULL,
                  runner_selected |-> "shell"]]
    /\ rowLock = [j \in JobIds |-> 0]
    /\ \E policy \in OtherPolicies :
          docs = [j \in {2} |-> [FinishedDoc(2, 0) EXCEPT !.policy = policy]]
    /\ artifacts = [j \in JobIds |-> {}]
    /\ logs = {}
    /\ hist = [j \in JobIds |->
                 IF j = 2
                 THEN [EmptyHist EXCEPT !.claims = 1, !.minted = 1, !.ran = TRUE,
                                        !.result = FinishedResult, !.done = TRUE]
                 ELSE EmptyHist]
    /\ dbLock = 0
    /\ cwdArt = {}
    /\ apiPending = <<>>
    /\ pc = [w \in Workers |-> IF w = 1 THEN "poll" ELSE "crashed"]
    /\ wjob = [w \in Workers |-> NoJob]
    /\ wstate = [w \in Workers |-> NoDoc]
    /\ wres = [w \in Workers |-> NoRes]
    /\ wexc = [w \in Workers |-> NULL]
    /\ faults = 0
    /\ CursorIdle
    /\ ListIdle
    /\ ApiIdle

\* the API and the Worker run until a client reads a job
BeforePolicyAsked == PolicyNotAsked /\ Next
NextPolicy == BeforePolicyAsked \/ LimitsPost \/ GetJobPolicy
SpecPolicy == InitPolicy /\ [][NextPolicy]_vars

\* C28: for a job created with policy.limits.max_runtime_seconds = r and
\* max_output_mb = m, GET /api/jobs/{job_id} reports max_runtime_seconds = r
\* and max_output_mb = m, although the document stores r under
\* time_limit_seconds; when the stored limits have a max_runtime_seconds it
\* takes precedence over time_limit_seconds.
C28_LimitsReported ==
    (resp.op = "policy" /\ resp.code = 200) =>
       LET j == resp.job
           stored == docs[j].policy
       IN /\ hist[j].limits.given =>
                /\ resp.body.given
                /\ resp.body.limits.max_runtime_seconds =
                      hist[j].limits.max_runtime_seconds
                /\ resp.body.limits.max_output_mb = hist[j].limits.max_output_mb
          /\ (stored.given /\ hist[j].limits.given) =>
                /\ stored.limits.time_limit_seconds =
                      hist[j].limits.max_runtime_seconds
                /\ stored.limits.max_runtime_seconds = NoInt
          /\ (stored.given /\ stored.limits.max_runtime_seconds # NoInt) =>
                resp.body.limits.max_runtime_seconds =
                   stored.limits.max_runtime_seconds

\* C29: a job's artifacts directory and artifact manifest hold only files
\* written by that job's own command: a file another job's command wrote
\* (for example into the Worker's working-directory artifacts folder) never
\* appears among this job's artifacts.  (A file is named by the job whose
\* command wrote it.)
C29_OnlyOwnArtifacts ==
    \A j \in JobIds :
       /\ artifacts[j] \subseteq {j}
       /\ j \in DOMAIN docs => docs[j].artifacts_manifest \subseteq {j}

\* C30: the Job Document never runs ahead of the Store: a document with a
\* non-empty attempts list or with status running implies that the Store
\* status of the job is not queued, and a document with status succeeded or
\* failed implies that the Store status is succeeded or failed.
C30_DocumentNotAhead ==
    \A j \in DOMAIN docs :
       /\ j \in DOMAIN jobs
       /\ (docs[j].attempts # <<>> \/ docs[j].status = "running")
             => jobs[j].status # "queued"
       /\ docs[j].status \in Terminal => jobs[j].status \in Terminal
\* one job is running in the Store and in its document, another is finished
\* in both
C30_Witness ==
    \E j, k \in DOMAIN docs :
       /\ docs[j].status = "running" /\ docs[j].attempts # <<>>
       /\ jobs[j].status = "running"
       /\ docs[k].status \in Terminal /\ jobs[k].status \in Terminal

\* C31: in every Job Document, completed_at is non-null if and only if the
\* document's status is succeeded or failed, and an attempt's finished_at is
\* non-null if and only if that attempt's status is succeeded or failed.
C31_TimesFollowStatus ==
    \A j \in DOMAIN docs :
       /\ docs[j].completed_at # NoTime <=> docs[j].status \in Terminal
       /\ \A i \in 1..Len(docs[j].attempts) :
             docs[j].attempts[i].finished_at # NoTime
                <=> docs[j].attempts[i].status \in Terminal
\* a document of a running job with its running attempt, and a document of
\* a finished job with its finished attempt
C31_Witness ==
    \E j, k \in DOMAIN docs :
       /\ docs[j].status = "running" /\ docs[j].completed_at = NoTime
       /\ docs[j].attempts # <<>>
       /\ Last(docs[j].attempts).status = "running"
       /\ Last(docs[j].attempts).finished_at = NoTime
       /\ docs[k].status \in Terminal /\ docs[k].completed_at # NoTime
       /\ docs[k].attempts # <<>>
       /\ Last(docs[k].attempts).status \in Terminal
       /\ Last(docs[k].attempts).finished_at # NoTime

====
